---- MODULE Spec2Model ----
(***************************************************************************)
(* Model of the Codex chat plugin's process-streaming session manager      *)
(* (class CodexService): one service instance, the subprocesses it spawns, *)
(* the per-call closure state of sendMessage (fullText, lastUsage,         *)
(* stdoutBuffer, stderrBuffer), the callbacks each call has invoked and    *)
(* the state of the promise each call returned.                            *)
(*                                                                         *)
(* Strings are sequences of characters; a subprocess writes bytes.  The    *)
(* byte alphabet is small: line feed, space, a plain letter, one two-byte  *)
(* UTF-8 character, and the bytes of a handful of JSON documents whose     *)
(* bodies are abbreviated to one letter between braces.                    *)
(*                                                                         *)
(* The building of a prompt is modelled beside the service: the argument   *)
(* vector of the subprocess (buildArgs), the split of the character budget *)
(* in handleSend and the conversation memory (buildConversationMemory),    *)
(* each under a specification of its own that draws the settings and the   *)
(* messages from a bounded set.  There, a message is its role and the      *)
(* length of its content.                                                  *)
(***************************************************************************)
EXTENDS Integers, Sequences, FiniteSets, TLC

\* ------------------------------------------------------------------ bounds
\* sendMessage calls made on the service in the lifecycle specification
MaxCalls == 3
\* lines written by the subprocess in the streaming specification
MaxLines == 2
\* sendMessage calls made on the service in the specification with fairness
MaxFairCalls == 2
\* messages of the view in the specification of the conversation memory
MaxMessages == 3
\* the most files mentioned in a message, and the most files a note links
MaxNotes == 2
\* calls of getShellEnv, and calls of saveSettings not yet returned, in the
\* specification of the shell environment
MaxEnvCalls == 3
MaxSaving == 1
\* text chunks of one response in the specification of the chat view
MaxChunks == 2
\* messages sent in the specification of the view with its service
MaxSends == 2
MaxAwaiting == 2
MaxSessions == 2
MaxTasks == 2
MaxIds == 3

\* ------------------------------------------------------------ characters
NL == "\n"
SP == " "
\* the two bytes of one two-byte UTF-8 character, the character they encode
\* and U+FFFD, which the decoder emits for a malformed sequence
LeadByte == "C3"
ContByte == "A9"
TwoByteChar == "e'"
ReplacementChar == "FFFD"

\* optional values: absent (undefined) or present
None == << >>
Some(v) == <<v>>

\* ------------------------------------------------------- string functions

\* new TextDecoder().decode(data): a fresh, non-streaming UTF-8 decoder for
\* every chunk.  A lead byte not followed by its continuation byte inside
\* the same chunk, and a continuation byte with no lead byte, decode to
\* U+FFFD.  A run of one-byte characters decodes to itself.
RECURSIVE TextDecode(_)
TextDecode(data) ==
  IF data = << >> THEN << >>
  ELSE IF Head(data) = LeadByte
       THEN IF Len(data) >= 2 /\ data[2] = ContByte
            THEN <<TwoByteChar>> \o TextDecode(SubSeq(data, 3, Len(data)))
            ELSE <<ReplacementChar>> \o TextDecode(Tail(data))
       ELSE IF Head(data) = ContByte
            THEN <<ReplacementChar>> \o TextDecode(Tail(data))
            ELSE LET n == CHOOSE k \in 1..Len(data) :
                             /\ \A j \in 1..k : data[j] \notin {LeadByte, ContByte}
                             /\ k < Len(data) => data[k + 1] \in {LeadByte, ContByte}
                 IN SubSeq(data, 1, n) \o TextDecode(SubSeq(data, n + 1, Len(data)))

\* String.prototype.split("\n"): the segments between line feeds; always at
\* least one segment, the last one being what follows the last line feed.
RECURSIVE Split(_)
Split(s) ==
  IF \A i \in 1..Len(s) : s[i] # NL THEN <<s>>
  ELSE LET i == CHOOSE k \in 1..Len(s) :
                   s[k] = NL /\ \A j \in 1..(k - 1) : s[j] # NL
       IN <<SubSeq(s, 1, i - 1)>> \o Split(SubSeq(s, i + 1, Len(s)))

\* String.prototype.trim()
RECURSIVE TrimStart(_)
TrimStart(s) ==
  IF s # << >> /\ Head(s) = SP THEN TrimStart(Tail(s)) ELSE s

RECURSIVE TrimEnd(_)
TrimEnd(s) ==
  IF s # << >> /\ s[Len(s)] = SP THEN TrimEnd(SubSeq(s, 1, Len(s) - 1)) ELSE s

Trim(s) == TrimEnd(TrimStart(s))

\* ------------------------------------------------------ structured records

\* CodexThreadEvent, flattened.  kind tells a JSON object from the JSON
\* value null (JSON.parse accepts both); the optional members are None when
\* absent.
Event(kind, type, itemType, itemText, usage, errorMessage) ==
  [kind |-> kind, type |-> type, itemType |-> itemType,
   itemText |-> itemText, usage |-> usage, errorMessage |-> errorMessage]

NoEvent == Event("none", "", None, None, None, None)
NullEvent == Event("null", "", None, None, None, None)

AgentText == <<"m">>

\* the documents the subprocess can write, by body letter
Records == [
  A |-> Event("object", "item.completed", Some("agent_message"), Some(AgentText), None, None),
  S |-> Event("object", "item.started", Some("agent_message"), Some(AgentText), None, None),
  R |-> Event("object", "item.completed", Some("reasoning"), Some(<<"r">>), None, None),
  U |-> Event("object", "turn.completed", None, None, Some("u1"), None),
  V |-> Event("object", "turn.completed", None, None, None, None),
  F |-> Event("object", "turn.failed", None, None, None, Some(<<"boom">>)),
  G |-> Event("object", "error", Some("error"), Some(<<"itemtext">>), None, None),
  H |-> Event("object", "error", None, None, None, None) ]

\* JSON.parse(trimmed): ok is FALSE when it throws SyntaxError
JSONParse(s) ==
  IF Len(s) = 3 /\ s[1] = "{" /\ s[3] = "}" /\ s[2] \in DOMAIN Records
  THEN [ok |-> TRUE, val |-> Records[s[2]]]
  ELSE IF s = <<"null">> THEN [ok |-> TRUE, val |-> NullEvent]
  ELSE [ok |-> FALSE, val |-> NoEvent]

\* ------------------------------------------------- the closure of one call

\* one callback invocation, as the caller observes it
Call(cb, ev, text, usage) == [cb |-> cb, ev |-> ev, text |-> text, usage |-> usage]

OnEvent(ev) == Call("onEvent", ev, << >>, None)
OnTextChunk(text) == Call("onTextChunk", NoEvent, text, None)
OnComplete(fullText, usage) == Call("onComplete", NoEvent, fullText, usage)
OnError(msg) == Call("onError", NoEvent, msg, None)

\* callbacks.onX?.(...): every handler is supplied and records its call
Invoke(s, c) == [s EXCEPT !.log = Append(@, c)]

\* resolve() that leaves the promise pending
ResolveLost(s) == s

\* resolve() / reject(): settling a settled promise does nothing
Resolve(s) == IF s.promise = "pending" THEN [s EXCEPT !.promise = "fulfilled"] ELSE s
Reject(s) == IF s.promise = "pending" THEN [s EXCEPT !.promise = "rejected"] ELSE s

\* let fullText = ""; let lastUsage; let stderrBuffer = ""; let stdoutBuffer = ""
NewSession ==
  [fullText |-> << >>, lastUsage |-> None, stderrBuffer |-> << >>,
   stdoutBuffer |-> << >>, log |-> << >>, promise |-> "pending",
   uncaught |-> FALSE]

\* event.item?.type === "agent_message" && event.item.text
IsAgentMessage(ev) ==
  /\ ev.itemType = Some("agent_message")
  /\ ev.itemText # None
  /\ ev.itemText[1] # << >>

\* event.error?.message ?? event.item?.text ?? "Unknown error"
ErrorText(ev) ==
  IF ev.errorMessage # None THEN ev.errorMessage[1]
  ELSE IF ev.itemText # None THEN ev.itemText[1]
  ELSE <<"Unknown error">>

\* LiveText without the "\n"
LiveTextNoNewline(s, trimmed) ==
  Invoke([s EXCEPT !.fullText = @ \o trimmed], OnTextChunk(trimmed))

\* the text branch of the live loop: fullText += trimmed + "\n"
LiveText(s, trimmed) ==
  Invoke([s EXCEPT !.fullText = @ \o trimmed \o <<NL>>],
         OnTextChunk(trimmed \o <<NL>>))

\* the dispatch of a decoded record in the live loop, after onEvent
LiveDispatch(s, ev) ==
  LET s2 == IF IsAgentMessage(ev) /\ ev.type = "item.completed"
            THEN Invoke([s EXCEPT !.fullText = ev.itemText[1]],
                        OnTextChunk(ev.itemText[1]))
            ELSE s
      s3 == IF ev.type = "turn.completed" /\ ev.usage # None
            THEN [s2 EXCEPT !.lastUsage = ev.usage]
            ELSE s2
  IN IF ev.type = "turn.failed" \/ ev.type = "error"
     THEN Invoke(s3, OnError(ErrorText(ev)))
     ELSE s3

\* one iteration of `for (const line of lines)`.  threw: the iteration ended
\* in an exception that nothing in the handler catches (event.item on the
\* value null is a TypeError, raised after onEvent was invoked).
LiveLine(s, line) ==
  LET trimmed == Trim(line) IN
  IF trimmed = << >> THEN [s |-> s, threw |-> FALSE]
  ELSE LET parsed == JSONParse(trimmed) IN
       IF ~parsed.ok THEN [s |-> LiveText(s, trimmed), threw |-> FALSE]
       ELSE LET s1 == Invoke(s, OnEvent(parsed.val)) IN
            IF parsed.val.kind = "null"
            THEN [s |-> [s1 EXCEPT !.uncaught = TRUE], threw |-> TRUE]
            ELSE [s |-> LiveDispatch(s1, parsed.val), threw |-> FALSE]

\* the loop; an exception leaves it, and the lines not yet visited are
\* never visited: they have already been taken out of stdoutBuffer
RECURSIVE LiveLines(_, _)
LiveLines(s, lines) ==
  IF lines = << >> THEN s
  ELSE LET r == LiveLine(s, Head(lines)) IN
       IF r.threw THEN r.s ELSE LiveLines(r.s, Tail(lines))

\* the stdout "data" listener, from `const lines = ...split("\n")` on:
\* the last segment goes back to the buffer, the others go through the loop
StdoutLines(s, lines) ==
  LiveLines([s EXCEPT !.stdoutBuffer = lines[Len(lines)]],
            SubSeq(lines, 1, Len(lines) - 1))

\* the stdout "data" listener (the buffer is decoded and split once)
StdoutDataHandler(s, data) ==
  CHOOSE t \in {StdoutLines(s, lines) :
                  lines \in {Split(s.stdoutBuffer \o TextDecode(data))}} : TRUE

\* the stderr "data" listener
StderrDataHandler(s, data) ==
  [s EXCEPT !.stderrBuffer = @ \o TextDecode(data)]

\* the catch branch of the final pass: no newline is added
FlushText(s, trimmed) ==
  Invoke([s EXCEPT !.fullText = @ \o trimmed], OnTextChunk(trimmed))

\* "Process any remaining stdout buffer" in the close listener.  The
\* TypeError of event.item on null is raised inside the try and lands in
\* the same catch as a SyntaxError.
FinalFlush(s) ==
  LET trimmed == Trim(s.stdoutBuffer) IN
  IF trimmed = << >> THEN s
  ELSE LET parsed == JSONParse(trimmed) IN
       IF ~parsed.ok THEN FlushText(s, trimmed)
       ELSE LET s1 == Invoke(s, OnEvent(parsed.val)) IN
            IF parsed.val.kind = "null" THEN FlushText(s1, trimmed)
            ELSE IF IsAgentMessage(parsed.val)
                 THEN [s1 EXCEPT !.fullText = parsed.val.itemText[1]]
                 ELSE s1

\* stderrBuffer.slice(0, 500) taken as the whole buffer
SliceAll(s, n) == s

\* stderrBuffer.slice(0, 500)
StderrExcerptLen == 500
Slice(s, n) == SubSeq(s, 1, IF Len(s) < n THEN Len(s) ELSE n)

\* CloseOutcome without its last branch: a killed process with no text is
\* reported like a failed one
CloseOutcomeKilledIsError(s, code) ==
  IF code = "0" \/ s.fullText # << >>
  THEN Resolve(Invoke(s, OnComplete(s.fullText, s.lastUsage)))
  ELSE Reject(Invoke(s, OnError(<<"Codex exited with code ", code>>)))

\* CloseOutcome with success decided by the exit code alone
CloseOutcomeTextIgnored(s, code) ==
  IF code = "0" \/ code = "null"
  THEN Resolve(Invoke(s, OnComplete(s.fullText, s.lastUsage)))
  ELSE Reject(Invoke(s, OnError(<<"Codex exited with code ", code>>)))

\* CloseOutcome treating an exit after a reported failure record as a process
\* error
CloseOutcomeFailedTurnRejects(s, code) ==
  IF \E i \in 1..Len(s.log) : s.log[i].cb = "onError"
  THEN Reject(Invoke(s, OnError(<<"Codex exited with code ", code>>)))
  ELSE Resolve(Invoke(s, OnComplete(s.fullText, s.lastUsage)))

\* the outcome branches of the close listener; code is "0", another
\* integer, or "null" for a process ended by a signal
CloseOutcome(s, code) ==
  IF code = "0" \/ s.fullText # << >>
  THEN Resolve(Invoke(s, OnComplete(s.fullText, s.lastUsage)))
  ELSE IF code # "null" /\ code # "0"
       THEN Reject(Invoke(s,
              IF Trim(s.stderrBuffer) # << >> /\ s.fullText = << >>
              THEN OnError(<<"Codex exited with code ", code, ". ">>
                           \o Slice(s.stderrBuffer, StderrExcerptLen))
              ELSE OnError(<<"Codex exited with code ", code>>)))
       ELSE Resolve(Invoke(s, OnComplete(s.fullText, s.lastUsage)))

\* CloseHandler with the leftover line parsed after the outcome was reported
CloseHandlerFlushLast(s, code) == FinalFlush(CloseOutcome(s, code))

\* the closure part of the close listener
CloseHandler(s, code) == CloseOutcome(FinalFlush(s), code)

\* the closure part of the process "error" listener
ErrorHandler(s, errMessage) ==
  Reject(Invoke(s, OnError(<<"Failed to run Codex: ", errMessage>>)))

\* the catch around spawn()
SpawnThrew(s) ==
  Reject(Invoke(s, OnError(<<"Failed to start Codex CLI. Is it installed?">>)))

\* ------------------------------------------------------------------ state

VARIABLES
  currentProcess,   \* this.currentProcess: 0 for null, else the call that spawned it
  abortController,  \* this.abortController: 0 for null, else the call that created it
  listeners,        \* calls whose onAbort is registered on their own controller's signal
  proc,             \* per call: the child process, as the operating system sees it
  sess,             \* per call: the closure state of sendMessage
  settings,         \* the plugin settings, which the service and the view read
  messages,         \* this.messages of the chat view
  args,             \* the last call of buildArgs: the prompt and the vector returned
  budget,           \* the last budget split of handleSend
  memory,           \* the last call of buildConversationMemory: its result
  vault,            \* the notes a prompt draws on: referenced, active, linked
  context,          \* the last context assembly of handleSend
  env,              \* the module state of the environment resolver
  conn,             \* the testConnection call in progress, or its result
  view,             \* the streaming fields of the chat view
  manager,          \* the SessionManager: its sessions and the active id
  disk              \* the plugin's data file and the saves under way

\* what the building of a prompt reads and writes
promptVars == <<settings, messages, args, budget, memory>>

\* the fields of the service
serviceVars == <<currentProcess, abortController, listeners, proc, sess>>

\* the notes and the context built from them
contextVars == <<vault, context>>

\* what lies outside the service and the building of a prompt
otherVars == <<vault, context, env, conn, view, manager, disk>>

vars == <<currentProcess, abortController, listeners, proc, sess,
          settings, messages, args, budget, memory,
          vault, context, env, conn, view, manager, disk>>

\* DEFAULT_SETTINGS; contextBudgetRatio is counted in tenths
DEFAULT_SETTINGS ==
  [sandboxMode |-> "read-only", modelOverride |-> "", reasoningEffort |-> "medium",
   maxContextLength |-> 10000, contextBudgetRatio |-> 6, memoryTurns |-> 10,
   contextMode |-> "current-note", codexBinaryPath |-> <<"codex">>]

\* a child process: bytes it has still to deliver, bytes delivered (in one
\* piece), SIGTERMs it has been sent, and the exit code reported by "close"
NewProc(status, out, err) ==
  [status |-> status, pending |-> out, delivered |-> << >>,
   errPending |-> err, signals |-> 0, code |-> "none"]

\* the service after construction
ServiceIdle ==
  /\ currentProcess = 0
  /\ abortController = 0
  /\ listeners = {}
  /\ proc = << >>
  /\ sess = << >>

\* no prompt has been built yet
NothingBuilt == args = None /\ budget = None /\ memory = None /\ context = None

\* a vault with no note open and none referenced
EmptyVault == [mentioned |-> << >>, active |-> None, linked |-> << >>]

\* let cachedEnv = null; nothing resolved yet.  queries counts the runs of
\* the login shell made for its PATH.
EnvAtLoad ==
  [cachedEnv |-> None, queries |-> 0, calls |-> 0, returned |-> None,
   saving |-> 0, resolved |-> None]

\* renderTimer = null, currentStreamEl = null, currentStreamText = "" (its
\* length), isGenerating = false.  timeouts counts the timeouts set and
\* neither fired nor cleared, renders lists the markdown renders of the
\* current bubble, ended tells how the last stream ended, last names the
\* handler that ran last and awaiting counts the invocations of handleSend
\* suspended at `await this.plugin.ensureAuthenticated()`.  retryBtn tells
\* whether an error bubble with its retry button is on the page and retries
\* counts the clicks on it.
ViewAtOpen ==
  [renderTimer |-> FALSE, currentStreamEl |-> FALSE, currentStreamText |-> 0,
   isGenerating |-> FALSE, timeouts |-> 0, chunks |-> 0, renders |-> << >>,
   ended |-> None, last |-> "onOpen", awaiting |-> 0, retryBtn |-> FALSE,
   retries |-> 0]

\* private sessions: ChatSession[] = []; private activeSessionId = null;
\* next numbers the identifiers createSessionObject has yet to give
ManagerAtConstruction ==
  [sessions |-> << >>, activeSessionId |-> None, next |-> 1,
   last |-> [op |-> "constructor", id |-> 0, returned |-> None]]

\* no data file: loadData() answers null, read as {}
NoData ==
  [settings |-> None, chatSessions |-> None, activeSessionId |-> None,
   chatMessages |-> None]

\* the data file, the saves under way and the keys of the file that
\* loadSettings copied into this.settings besides the settings themselves
DiskAtLoad == [data |-> NoData, tasks |-> << >>, carried |-> NoData]

\* the plugin outside the calls under study
PluginAtLoad ==
  /\ env = EnvAtLoad /\ conn = None /\ view = ViewAtOpen
  /\ manager = ManagerAtConstruction /\ disk = DiskAtLoad

Init ==
  /\ ServiceIdle
  /\ settings = DEFAULT_SETTINGS
  /\ messages = << >>
  /\ NothingBuilt
  /\ vault = EmptyVault
  /\ PluginAtLoad

\* ChildProcess.kill("SIGTERM"): the signal reaches a process that has not
\* been reported closed; on a child that never started it does nothing
Kill(pr, p) ==
  IF p # 0 /\ pr[p].status = "running"
  THEN [pr EXCEPT ![p].signals = @ + 1]
  ELSE pr

\* the fields of the service that cancel() reads or writes
Service == [currentProcess |-> currentProcess,
            abortController |-> abortController,
            listeners |-> listeners,
            proc |-> proc]

\* onAbort, the listener every call registers: it signals whatever
\* this.currentProcess is when the controller is aborted
OnAbort(svc) == [svc EXCEPT !.proc = Kill(@, svc.currentProcess)]

\* if (this.abortController) { abort(); this.abortController = null }
CancelAbort(svc) ==
  IF svc.abortController = 0 THEN svc
  ELSE [(IF svc.abortController \in svc.listeners THEN OnAbort(svc) ELSE svc)
          EXCEPT !.abortController = 0]

\* CancelKill without `this.currentProcess = null`
CancelKillKeepsHandle(svc) ==
  IF svc.currentProcess = 0 THEN svc
  ELSE [svc EXCEPT !.proc = Kill(@, svc.currentProcess)]

\* if (this.currentProcess) { kill("SIGTERM"); this.currentProcess = null }
CancelKill(svc) ==
  IF svc.currentProcess = 0 THEN svc
  ELSE [svc EXCEPT !.proc = Kill(@, svc.currentProcess),
                   !.currentProcess = 0]

\* cancel(), as a function of the service
CancelOf(svc) == CancelKill(CancelAbort(svc))

\* cancel(), on the variables of the service
CancelService ==
  LET after == CancelOf(Service) IN
  /\ proc' = after.proc
  /\ abortController' = after.abortController
  /\ currentProcess' = after.currentProcess
  /\ listeners' = after.listeners
  /\ UNCHANGED sess

\* cancel()
Cancel ==
  /\ CancelService
  /\ UNCHANGED promptVars
  /\ UNCHANGED otherVars

\* sendMessage(prompt, callbacks) up to the return of the promise.
\* how: "ok" the child starts; "enoent" spawn returns a child that will emit
\* "error"; "throw" spawn throws.
Spawn(out, err, how) ==
  LET id == Len(proc) + 1
      cancelled == CancelOf(Service).proc
  IN /\ abortController' = id
     /\ IF how = "throw"
        THEN /\ currentProcess' = 0
             /\ proc' = Append(cancelled, NewProc("nospawn", << >>, << >>))
             /\ sess' = Append(sess, SpawnThrew(NewSession))
             /\ UNCHANGED listeners
        ELSE /\ currentProcess' = id
             /\ proc' = Append(cancelled,
                          IF how = "ok" THEN NewProc("running", out, err)
                          ELSE NewProc("failing", << >>, << >>))
             /\ sess' = Append(sess, NewSession)
             /\ listeners' = listeners \cup {id}

\* sendMessage(prompt, callbacks), seen from the service
SendMessage(out, err, how) ==
  /\ Spawn(out, err, how)
  /\ UNCHANGED promptVars
  /\ UNCHANGED otherVars

\* a stdout chunk of process p arrives: the next n bytes it wrote
StdoutDataService(p, n) ==
  /\ proc[p].status = "running"
  /\ n \in 1..Len(proc[p].pending)
  /\ LET data == SubSeq(proc[p].pending, 1, n) IN
     /\ sess' = [sess EXCEPT ![p] = StdoutDataHandler(@, data)]
     /\ proc' = [proc EXCEPT ![p].pending = SubSeq(@, n + 1, Len(@)),
                             ![p].delivered = @ \o data]
  /\ UNCHANGED <<currentProcess, abortController, listeners>>

\* a stdout chunk arrives, seen from the service
StdoutData(p, n) ==
  /\ StdoutDataService(p, n)
  /\ UNCHANGED promptVars
  /\ UNCHANGED otherVars

\* what process p wrote to stderr arrives
StderrData(p) ==
  /\ proc[p].status = "running"
  /\ proc[p].errPending # << >>
  /\ sess' = [sess EXCEPT ![p] = StderrDataHandler(@, proc[p].errPending)]
  /\ proc' = [proc EXCEPT ![p].errPending = << >>]
  /\ UNCHANGED <<currentProcess, abortController, listeners>>
  /\ UNCHANGED promptVars
  /\ UNCHANGED otherVars

\* the exit codes "close" can report for process p: an exit of its own once
\* it has written everything, null once it has been sent SIGTERM, the
\* negated errno after a failed spawn
CloseCodes(p) ==
  CASE proc[p].status = "running" ->
         (IF proc[p].pending = << >> /\ proc[p].errPending = << >>
          THEN {"0", "1"} ELSE {})
         \cup (IF proc[p].signals > 0 THEN {"null"} ELSE {})
    [] proc[p].status = "errored" -> {"-2"}
    [] OTHER -> {}

\* the "close" listener of call p runs
CloseService(p, code) ==
  /\ code \in CloseCodes(p)
  /\ currentProcess' = 0
  /\ listeners' = IF abortController = p THEN listeners \ {p} ELSE listeners
  /\ abortController' = 0
  /\ sess' = [sess EXCEPT ![p] = CloseHandler(@, code)]
  /\ proc' = [proc EXCEPT ![p].status = "closed", ![p].code = code]

\* the "close" listener, seen from the service
Close(p, code) ==
  /\ CloseService(p, code)
  /\ UNCHANGED promptVars
  /\ UNCHANGED otherVars

\* the "error" listener of call p runs (the child could not be started)
ErrorEventService(p) ==
  /\ proc[p].status = "failing"
  /\ currentProcess' = 0
  /\ sess' = [sess EXCEPT ![p] = ErrorHandler(@, "spawn ENOENT")]
  /\ proc' = [proc EXCEPT ![p].status = "errored"]
  /\ UNCHANGED <<abortController, listeners>>

\* the "error" listener, seen from the service
ErrorEvent(p) ==
  /\ ErrorEventService(p)
  /\ UNCHANGED promptVars
  /\ UNCHANGED otherVars

\* ------------------------------------------------- what a subprocess writes

\* the lines of the streaming specification
Lines ==
  { <<"{", "A", "}">>, <<"{", "S", "}">>, <<"{", "U", "}">>, <<"{", "F", "}">>,
    <<"null">>, <<"x">>, <<SP, "x">>, << >>, <<LeadByte, ContByte>> }

\* at most n lines, each with its line feed
RECURSIVE Terminated(_)
Terminated(n) ==
  IF n = 0 THEN {<< >>}
  ELSE LET shorter == Terminated(n - 1) IN
       shorter \cup {s \o l \o <<NL>> : s \in shorter, l \in Lines}

\* at most MaxLines lines, the last one with or without its line feed
StreamOutputs ==
  Terminated(MaxLines)
  \cup {s \o l : s \in Terminated(MaxLines - 1), l \in Lines}

\* a stderr output longer than the excerpt the close listener reports
LongStderr == [i \in 1..(StderrExcerptLen + 1) |-> "w"]

StderrOutputs == {<< >>, <<"w">>, <<SP>>, <<"w", "w">>, LongStderr}

\* the outputs of the lifecycle specification
LifeOutputs == {<< >>, <<"x", NL>>}

\* ------------------------------------------------------ the argument vector

\* buildArgs with --reasoning-effort pushed for every effort
buildArgsEffortAlways(st, prompt) ==
  <<"exec", "--json">>
  \o (IF st.sandboxMode = "danger-full-access"
      THEN <<"--sandbox", "danger-full-access">>
      ELSE IF st.sandboxMode = "workspace-write" THEN <<"--full-auto">> ELSE << >>)
  \o (IF st.modelOverride # "" THEN <<"--model", st.modelOverride>> ELSE << >>)
  \o <<"--reasoning-effort", st.reasoningEffort>>
  \o <<"--skip-git-repo-check", prompt>>

\* buildArgs(prompt), reading this.settings (st): each push in its order.
\* An empty modelOverride is falsy.
buildArgs(st, prompt) ==
  LET a1 == <<"exec", "--json">>
      a2 == IF st.sandboxMode = "danger-full-access"
            THEN a1 \o <<"--sandbox", "danger-full-access">>
            ELSE IF st.sandboxMode = "workspace-write"
                 THEN Append(a1, "--full-auto")
                 ELSE a1
      a3 == IF st.modelOverride # ""
            THEN a2 \o <<"--model", st.modelOverride>>
            ELSE a2
      a4 == IF st.reasoningEffort # "medium"
            THEN a3 \o <<"--reasoning-effort", st.reasoningEffort>>
            ELSE a3
  IN Append(Append(a4, "--skip-git-repo-check"), prompt)

\* sendMessage builds the argument vector of the process it spawns
BuildArgs(prompt) ==
  /\ args' = Some([prompt |-> prompt, argv |-> buildArgs(settings, prompt)])
  /\ UNCHANGED <<currentProcess, abortController, listeners, proc, sess>>
  /\ UNCHANGED <<settings, messages, budget, memory>>
  /\ UNCHANGED otherVars

\* SandboxMode, ReasoningEffort, and model overrides: none, or a model name
SandboxModes == {"read-only", "workspace-write", "danger-full-access"}
ReasoningEfforts == {"low", "medium", "high"}
ModelOverrides == {"", "o3-mini"}

\* the settings the argument vector depends on, in every combination
ArgSettings ==
  {[DEFAULT_SETTINGS EXCEPT !.sandboxMode = sb, !.modelOverride = m,
                            !.reasoningEffort = e] :
     sb \in SandboxModes, m \in ModelOverrides, e \in ReasoningEfforts}

Prompts == {"hello", "hi there", "--json", "x", "summarize"}

\* ------------------------------------------------------- the prompt budget

\* the sliders of the settings tab: setLimits(1000, 50000, 1000) for
\* maxContextLength, setLimits(0.1, 0.9, 0.1) for contextBudgetRatio
ContextLengths == {1000 * k : k \in 1..50}
BudgetRatios == 1..9

\* totalBudget * ratio is a product of IEEE 754 doubles: ratio is the double
\* nearest to the decimal fraction, and the product is rounded again.  For
\* these values of the sliders the rounded product lies just below the
\* integer that the decimal product is (11000 * 0.7 is 7699.999999999999).
ProductRoundsBelow ==
  {<<11000, 7>>, <<21000, 7>>, <<22000, 7>>, <<23000, 7>>, <<41000, 7>>,
   <<42000, 7>>, <<43000, 7>>, <<44000, 7>>, <<45000, 7>>, <<46000, 7>>}

\* Math.floor(totalBudget * ratio), ratio in tenths
FloorOfProduct(totalBudget, ratio) ==
  IF <<totalBudget, ratio>> \in ProductRoundsBelow
  THEN (totalBudget * ratio) \div 10 - 1
  ELSE (totalBudget * ratio) \div 10

\* vaultBudget and memoryBudget of handleSend
SplitBudget(st) ==
  LET totalBudget == st.maxContextLength
      vaultBudget == FloorOfProduct(totalBudget, st.contextBudgetRatio)
  IN [vaultBudget |-> vaultBudget, memoryBudget |-> totalBudget - vaultBudget]

\* handleSend splits the budget
Budget ==
  /\ budget' = Some(SplitBudget(settings))
  /\ UNCHANGED <<currentProcess, abortController, listeners, proc, sess>>
  /\ UNCHANGED <<settings, messages, args, memory>>
  /\ UNCHANGED otherVars

\* the settings the split depends on, over the range of the two sliders
BudgetSettings ==
  {[DEFAULT_SETTINGS EXCEPT !.maxContextLength = t, !.contextBudgetRatio = r] :
     t \in ContextLengths, r \in BudgetRatios}

\* -------------------------------------------------- the conversation memory

\* A message is its role and the length of its content; a string built from
\* it is the list of its pieces, or its length.

\* Math.max(500, ...): the least limit of a message
PerMessageFloor == 500
\* "Previous conversation:\n".length
HeaderLength == 23
\* "...(truncated)".length
MarkerLength == 14
\* "User".length, "Assistant".length
UserLength == 4
AssistantLength == 9
\* the ": " and the "\n" of `${role}: ${content}\n`
SeparatorsLength == 3

Max(a, b) == IF a > b THEN a ELSE b

\* this.messages.slice(-n): the last n messages; slice(-0) is the whole array
SliceLast(msgs, n) ==
  IF n = 0 \/ n >= Len(msgs) THEN msgs
  ELSE SubSeq(msgs, Len(msgs) - n + 1, Len(msgs))

\* the line of one message under a limit: the role, the characters of the
\* content that are kept, whether the marker follows them, and line.length
MemoryLine(msg, perMsgLimit) ==
  LET truncated == msg.content > perMsgLimit
      kept == IF truncated THEN perMsgLimit ELSE msg.content
  IN [role |-> msg.role, kept |-> kept, truncated |-> truncated,
      length |-> (IF msg.role = "user" THEN UserLength ELSE AssistantLength)
                 + SeparatorsLength + kept
                 + (IF truncated THEN MarkerLength ELSE 0)]

\* the loop `for (const msg of recentMessages)`: the lines pushed
RECURSIVE MemoryLoop(_, _, _)
MemoryLoop(msgs, totalLength, maxChars) ==
  IF msgs = << >> THEN << >>
  ELSE LET perMsgLimit == Max(PerMessageFloor, (maxChars - totalLength) \div 2)
           line == MemoryLine(Head(msgs), perMsgLimit)
       IN IF totalLength + line.length > maxChars THEN << >>
          ELSE <<line>> \o MemoryLoop(Tail(msgs), totalLength + line.length, maxChars)

\* buildConversationMemory(maxChars): the lines between the header and the
\* closing "\n", and the length of the string returned ("" without messages)
buildConversationMemory(msgs, memoryTurns, maxChars) ==
  LET recentMessages == SliceLast(msgs, memoryTurns * 2)
      lines == MemoryLoop(recentMessages, HeaderLength, maxChars)
  IN IF msgs = << >> THEN [lines |-> << >>, length |-> 0]
     ELSE [lines |-> lines,
           length |-> HeaderLength
                      + (IF lines = << >> THEN 0
                         ELSE LET Sum[i \in 0..Len(lines)] ==
                                    IF i = 0 THEN 0 ELSE Sum[i - 1] + lines[i].length
                              IN Sum[Len(lines)])
                      + 1]

\* handleSend builds the memory under the memory share of the budget
BuildMemory ==
  /\ budget' = Some(SplitBudget(settings))
  /\ memory' = Some(buildConversationMemory(messages, settings.memoryTurns,
                                            SplitBudget(settings).memoryBudget))
  /\ UNCHANGED <<currentProcess, abortController, listeners, proc, sess>>
  /\ UNCHANGED <<settings, messages, args>>
  /\ UNCHANGED otherVars

\* memory budgets of 400 and 4000 characters, one or ten turn pairs
MemorySettings ==
  {[DEFAULT_SETTINGS EXCEPT !.maxContextLength = t, !.memoryTurns = n] :
     t \in {1000, 10000}, n \in {1, 10}}

\* the conversations of the view: at most n messages, short or long
ContentLengths == {100, 300, 3000}
RECURSIVE Conversations(_)
Conversations(n) ==
  IF n = 0 THEN {<< >>}
  ELSE Conversations(n - 1)
       \cup {Append(c, [role |-> r, content |-> l]) :
               c \in {d \in Conversations(n - 1) : Len(d) = n - 1},
               r \in {"user", "assistant"}, l \in ContentLengths}

\* ------------------------------------------------------- the vault context

\* A note is the length of its title and path together and the length of
\* its content; a formatted unit is the lengths of its pieces.

\* "Note: ", " (" and ")\n" of the header `Note: ${title} (${path})\n`
NoteHeaderLength == 10
\* the margin of `maxLength - header.length - 10`
Margin == 10
\* "\n...(truncated)".length
NoteMarkerLength == 15
\* "Referenced files:\n".length and "Context from Obsidian vault:\n".length
ReferencedTitleLength == 18
ContextTitleLength == 29
\* "─".repeat(40)
RuleLength == 40
\* `remainingVaultBudget > 500`
AmbientThreshold == 500

\* the unit ""
EmptyUnit == [header |-> 0, kept |-> 0, truncated |-> FALSE, length |-> 0]

\* formatNoteContext without `if (available <= 0) return ""`:
\* content.slice(0, available) with a negative end drops characters from
\* the end of the content
formatNoteContextUnguarded(note, maxLength) ==
  LET header == NoteHeaderLength + note.titlePath
      available == maxLength - header - Margin
      truncated == note.content > available
      kept == IF ~truncated THEN note.content
              ELSE IF available >= 0 THEN available
              ELSE IF note.content + available > 0 THEN note.content + available
              ELSE 0
  IN [header |-> header, kept |-> kept, truncated |-> truncated,
      length |-> header + kept + (IF truncated THEN NoteMarkerLength ELSE 0) + 1]

\* formatNoteContext(title, path, content, maxLength)
formatNoteContext(note, maxLength) ==
  LET header == NoteHeaderLength + note.titlePath
      available == maxLength - header - Margin
      truncated == note.content > available
      kept == IF truncated THEN available ELSE note.content
  IN IF available <= 0 THEN EmptyUnit
     ELSE [header |-> header, kept |-> kept, truncated |-> truncated,
           length |-> header + kept + (IF truncated THEN NoteMarkerLength ELSE 0) + 1]

\* one call of formatNoteContext: who made it, its arguments and its result
NoteCall(source, note, maxLength) ==
  [source |-> source, note |-> note, maxLength |-> maxLength,
   unit |-> formatNoteContext(note, maxLength)]

\* the sum of the lengths of the units of a list of calls
RECURSIVE UnitsLength(_)
UnitsLength(calls) ==
  IF calls = << >> THEN 0
  ELSE Head(calls).unit.length + UnitsLength(Tail(calls))

\* title + rule + "\n" + parts.join("\n" + rule + "\n") + "\n" + rule + "\n\n"
WrappedLength(title, calls) ==
  title + (RuleLength + 1)
  + UnitsLength(calls) + (Len(calls) - 1) * (RuleLength + 2)
  + (RuleLength + 3)

\* the result of a source that was not asked, or had nothing to give
NoSource == [built |-> FALSE, maxLength |-> 0, calls |-> << >>, length |-> 0]

\* a source that was asked: the budget it was given, the calls it made and
\* the length of the string it returned ("" when it pushed no part)
Source(maxLength, calls, title) ==
  [built |-> TRUE, maxLength |-> maxLength, calls |-> calls,
   length |-> IF calls = << >> THEN 0 ELSE WrappedLength(title, calls)]

\* the loop of buildAtFileContext with no `if (totalLength >= maxLength) break`
RECURSIVE NoteLoopUnbroken(_, _, _, _)
NoteLoopUnbroken(source, notes, totalLength, maxLength) ==
  IF notes = << >> THEN << >>
  ELSE LET call == NoteCall(source, Head(notes), maxLength - totalLength)
       IN <<call>> \o NoteLoopUnbroken(source, Tail(notes),
                                       totalLength + call.unit.length, maxLength)

\* the loop over the files of a source: each note is formatted under what
\* remains, until nothing remains
RECURSIVE NoteLoop(_, _, _, _)
NoteLoop(source, notes, totalLength, maxLength) ==
  IF notes = << >> \/ totalLength >= maxLength THEN << >>
  ELSE LET call == NoteCall(source, Head(notes), maxLength - totalLength)
       IN <<call>> \o NoteLoop(source, Tail(notes),
                               totalLength + call.unit.length, maxLength)

\* buildAtFileContext(files, maxLength)
buildAtFileContext(files, maxLength) ==
  IF files = << >> THEN Source(maxLength, << >>, ReferencedTitleLength)
  ELSE Source(maxLength, NoteLoop("referenced", files, 0, maxLength),
              ReferencedTitleLength)

\* buildContext(mode, maxLength), for the active file and its linked files
buildContext(mode, active, linked, maxLength) ==
  IF mode = "none" \/ active = None THEN Source(maxLength, << >>, ContextTitleLength)
  ELSE LET current == NoteCall("ambient", active[1], maxLength)
           others == IF mode = "current-and-linked"
                     THEN NoteLoop("ambient", linked, current.unit.length, maxLength)
                     ELSE << >>
       IN Source(maxLength, <<current>> \o others, ContextTitleLength)

\* handleSend, "Build full prompt with smart context budgeting", up to the
\* conversation memory: the two context sources of the prompt
VaultContextOf(st, v) ==
  LET vaultBudget == SplitBudget(st).vaultBudget
      atFileCtx == buildAtFileContext(v.mentioned, vaultBudget \div 2)
      remainingVaultBudget == vaultBudget - atFileCtx.length
      ambient == IF remainingVaultBudget > AmbientThreshold
                 THEN buildContext(st.contextMode, v.active, v.linked,
                                   remainingVaultBudget)
                 ELSE NoSource
  IN [referenced |-> atFileCtx, ambient |-> ambient]

\* handleSend assembles the vault context of the prompt
AssembleContext ==
  /\ context = None
  /\ budget' = Some(SplitBudget(settings))
  /\ context' = Some(VaultContextOf(settings, vault))
  /\ UNCHANGED serviceVars
  /\ UNCHANGED <<settings, messages, args, memory>>
  /\ UNCHANGED <<manager, disk, vault, env, conn, view>>

\* buildContext formats the active note under a given length
FormatNote(maxLength) ==
  /\ context = None
  /\ context' = Some([referenced |-> NoSource,
                      ambient |-> buildContext("current-note", vault.active,
                                               << >>, maxLength)])
  /\ UNCHANGED serviceVars
  /\ UNCHANGED promptVars
  /\ UNCHANGED <<manager, disk, vault, env, conn, view>>

\* notes and lengths for the formatting of one note: headers of 15, 30 and
\* 70 characters, contents from empty to long
FormatNotes ==
  {[titlePath |-> t, content |-> c] : t \in {5, 20, 60}, c \in {0, 1, 100, 5000}}
FormatLengths == {1, 25, 40, 41, 70, 100, 300, 6000}

\* the notes of a context assembly: a short one and two long ones
Notes == {[titlePath |-> 20, content |-> 100],
          [titlePath |-> 20, content |-> 5000],
          [titlePath |-> 60, content |-> 5000]}

\* the sequences of at most n notes
RECURSIVE NoteLists(_)
NoteLists(n) ==
  IF n = 0 THEN {<< >>}
  ELSE NoteLists(n - 1)
       \cup {Append(l, x) : l \in {k \in NoteLists(n - 1) : Len(k) = n - 1},
                            x \in Notes}

\* the settings and vaults of a context assembly
ContextModes == {"none", "current-note", "current-and-linked"}
ContextSettings ==
  {[DEFAULT_SETTINGS EXCEPT !.maxContextLength = total,
                            !.contextBudgetRatio = ratio,
                            !.contextMode = mode] :
     total \in {1000, 2000}, ratio \in {1, 6, 9}, mode \in ContextModes}
Vaults ==
  {[mentioned |-> m, active |-> None, linked |-> << >>] : m \in NoteLists(MaxNotes)}
  \cup {[mentioned |-> m, active |-> Some(a), linked |-> l] :
          m \in NoteLists(MaxNotes), a \in Notes, l \in NoteLists(MaxNotes)}

\* ------------------------------------------------------- shell environment
\* A path is the sequence of its components, an absolute one starting with
\* "/"; the value of PATH is the sequence of its directories. The machine a
\* function runs on is the record of what its system calls answer:
\*   shellPath    what `$SHELL -l -c 'echo "$PATH"'` prints, None when execSync
\*                throws (timeout, non-zero exit, missing shell)
\*   processPath  process.env["PATH"], None when unset
\*   which        what `$SHELL -l -c 'which codex'` prints, None when execSync
\*                throws
\*   exists       the paths existsSync answers true for

\* configured.startsWith("/")
IsAbsolute(path) == path # << >> /\ Head(path) = "/"

\* join(dir, name)
Join(dir, name) == Append(dir, name)

\* "codex"
Codex == <<"codex">>

\* "/usr/bin:/bin"
FallbackPath == << <<"/", "usr", "bin">>, <<"/", "bin">> >>

\* homedir()
Home == <<"/", "home", "user">>

COMMON_CODEX_PATHS ==
  << <<"/", "home", "linuxbrew", ".linuxbrew", "bin", "codex">>,
     <<"/", "opt", "homebrew", "bin", "codex">>,
     <<"/", "usr", "local", "bin", "codex">>,
     Home \o <<".local", "bin", "codex">>,
     Home \o <<".npm-global", "bin", "codex">>,
     Home \o <<".nvm", "versions">> >>

\* getShellPath(): the login shell's PATH, or the process's, or the default
getShellPath(m) ==
  IF m.shellPath # None /\ m.shellPath[1] # << >> THEN m.shellPath[1]
  ELSE IF m.processPath # None THEN m.processPath[1]
  ELSE FallbackPath

\* the environment getShellEnv builds
ShellEnv(m) == [PATH |-> getShellPath(m), TERM |-> "dumb"]

\* getShellEnv with no `if (cachedEnv) return cachedEnv`
getShellEnvUncached(e, m) ==
  [e EXCEPT !.cachedEnv = Some(ShellEnv(m)), !.returned = Some(ShellEnv(m)),
            !.queries = @ + 1, !.calls = @ + 1]

\* getShellEnv(): e.returned is what it returns, e.queries counts the
\* queries of the shell it made
getShellEnv(e, m) ==
  IF e.cachedEnv # None
  THEN [e EXCEPT !.returned = e.cachedEnv, !.calls = @ + 1]
  ELSE [e EXCEPT !.cachedEnv = Some(ShellEnv(m)), !.returned = Some(ShellEnv(m)),
                 !.queries = @ + 1, !.calls = @ + 1]

\* clearShellEnvCache()
clearShellEnvCache(e) == [e EXCEPT !.cachedEnv = None]

\* the first path of a list that exists
RECURSIVE FirstExisting(_, _)
FirstExisting(paths, exists) ==
  IF paths = << >> THEN None
  ELSE IF Head(paths) \in exists THEN Some(Head(paths))
  ELSE FirstExisting(Tail(paths), exists)

\* the candidates of the scan of the PATH directories
ScanCandidates(m) ==
  [i \in 1..Len(getShellPath(m)) |-> Join(getShellPath(m)[i], "codex")]

\* the value resolveCodexBinary returns, and the strategy that gave it
Resolved(value, by) == [value |-> value, by |-> by, threw |-> FALSE]

\* resolveCodexBinary trying the well-known locations before the login shell
resolveCodexBinaryCommonFirst(configured, m) ==
  IF IsAbsolute(configured) /\ configured \in m.exists
  THEN Resolved(configured, "configured")
  ELSE IF configured # Codex THEN Resolved(configured, "as-is")
  ELSE IF FirstExisting(COMMON_CODEX_PATHS, m.exists) # None
  THEN Resolved(FirstExisting(COMMON_CODEX_PATHS, m.exists)[1], "common")
  ELSE IF m.which # None /\ m.which[1] # << >> /\ m.which[1] \in m.exists
  THEN Resolved(m.which[1], "which")
  ELSE IF FirstExisting(ScanCandidates(m), m.exists) # None
  THEN Resolved(FirstExisting(ScanCandidates(m), m.exists)[1], "scan")
  ELSE Resolved(configured, "as-is")

\* resolveCodexBinary(configured)
resolveCodexBinary(configured, m) ==
  IF IsAbsolute(configured) /\ configured \in m.exists
  THEN Resolved(configured, "configured")
  ELSE IF configured # Codex THEN Resolved(configured, "as-is")
  ELSE IF m.which # None /\ m.which[1] # << >> /\ m.which[1] \in m.exists
  THEN Resolved(m.which[1], "which")
  ELSE IF FirstExisting(COMMON_CODEX_PATHS, m.exists) # None
  THEN Resolved(FirstExisting(COMMON_CODEX_PATHS, m.exists)[1], "common")
  ELSE IF FirstExisting(ScanCandidates(m), m.exists) # None
  THEN Resolved(FirstExisting(ScanCandidates(m), m.exists)[1], "scan")
  ELSE Resolved(configured, "as-is")

\* one call of resolveCodexBinary: its argument, the machine and its result
ResolveCall(configured, m) ==
  [configured |-> configured, machine |-> m,
   result |-> resolveCodexBinary(configured, m)]

\* `env: getShellEnv()` of a spawn
GetShellEnv(m) ==
  /\ env.calls < MaxEnvCalls
  /\ env' = getShellEnv(env, m)
  /\ UNCHANGED serviceVars
  /\ UNCHANGED promptVars
  /\ UNCHANGED <<manager, disk, vault, context, conn, view>>

\* the settings tab's onChange of the binary path: the setting is assigned
\* and saveSettings is called, which awaits the plugin's data
OnChangeBinaryPath(path) ==
  /\ env.saving < MaxSaving
  /\ settings' = [settings EXCEPT !.codexBinaryPath = path]
  /\ env' = [env EXCEPT !.saving = @ + 1]
  /\ UNCHANGED serviceVars
  /\ UNCHANGED <<messages, args, budget, memory>>
  /\ UNCHANGED <<manager, disk, vault, context, conn, view>>

\* saveSettings, once the data is written: the cache is cleared and the
\* services resolve the binary again
SaveSettings(m) ==
  /\ env.saving > 0
  /\ env' = [clearShellEnvCache(env) EXCEPT
               !.saving = @ - 1,
               !.resolved = Some(ResolveCall(settings.codexBinaryPath, m))]
  /\ UNCHANGED serviceVars
  /\ UNCHANGED promptVars
  /\ UNCHANGED <<manager, disk, vault, context, conn, view>>

\* the CodexService constructor resolves the configured binary
ResolveBinary(m) ==
  /\ env.resolved = None
  /\ env' = [env EXCEPT !.resolved = Some(ResolveCall(settings.codexBinaryPath, m))]
  /\ UNCHANGED serviceVars
  /\ UNCHANGED promptVars
  /\ UNCHANGED <<manager, disk, vault, context, conn, view>>

\* the configured binary paths and the machines
OptCodex == <<"/", "opt", "codex", "bin", "codex">>
UserBin == <<"/", "home", "user", "bin">>
ConfiguredPaths == {Codex, OptCodex, <<"/", "usr", "local", "bin", "codex">>, <<"codex-beta">>}
ShellPaths == {None, Some(<< >>), Some(<<UserBin, <<"/", "usr", "bin">> >>)}
ProcessPaths == {None, Some(<< <<"/", "usr", "bin">> >>)}
WhichResults == {None, Some(<< >>), Some(OptCodex)}
ExistingPaths ==
  SUBSET {OptCodex, COMMON_CODEX_PATHS[3], COMMON_CODEX_PATHS[6],
          Join(<<"/", "usr", "bin">>, "codex")}
Machines ==
  [shellPath : ShellPaths, processPath : ProcessPaths, which : WhichResults,
   exists : ExistingPaths]

\* the machines of the specification of the cache: the login shell answers
\* or fails
EnvMachines ==
  [shellPath : {None, Some(<<UserBin, <<"/", "usr", "bin">> >>)},
   processPath : {Some(<< <<"/", "usr", "bin">> >>)},
   which : {Some(OptCodex)}, exists : {{OptCodex}}]

\* --------------------------------------------------------- connection test
\* testConnection's promise and its subprocess `<binary> --version`:
\*   status   "running", "failing" (the child cannot be started and its
\*            "error" event is due), "errored", "killed" (the 10 s timeout
\*            sent SIGTERM), "closed", "nospawn" (spawn threw)
\*   code     the exit code "close" reported
\*   promise  "pending" or "resolved", with the value it resolved to

\* resolve(value): only the first call settles the promise
ConnResolve(c, value) ==
  IF c.promise = "pending" THEN [c EXCEPT !.promise = "resolved", !.value = value]
  ELSE c

\* a "close" listener resolving true whatever the code
ConnCloseHandlerAnyCode(c, code) ==
  ConnResolve([c EXCEPT !.status = "closed", !.code = code], TRUE)

\* proc.on("close", (code) => resolve(code === 0))
ConnCloseHandler(c, code) ==
  ConnResolve([c EXCEPT !.status = "closed", !.code = code], code = "0")

\* proc.on("error", () => resolve(false))
ConnErrorHandler(c) == ConnResolve([c EXCEPT !.status = "errored"], FALSE)

\* new Promise((resolve) => { try { spawn(...) ... } catch { resolve(false) } })
NewConn(how) ==
  LET c == [status |-> "running", code |-> "none", promise |-> "pending",
            value |-> FALSE]
  IN CASE how = "ok" -> c
       [] how = "enoent" -> [c EXCEPT !.status = "failing"]
       [] OTHER -> ConnResolve([c EXCEPT !.status = "nospawn"], FALSE)

\* testConnection(): the resolved binary is spawned with the shell
\* environment; the spawn starts the child, fails to, or throws
TestConnection(m, how) ==
  /\ env.resolved # None
  /\ conn = None
  /\ env.calls < MaxEnvCalls
  /\ env' = getShellEnv(env, m)
  /\ conn' = Some(NewConn(how))
  /\ UNCHANGED serviceVars
  /\ UNCHANGED promptVars
  /\ UNCHANGED <<manager, disk, vault, context, view>>

\* the timeout of 10000 ms passes before the child exits: SIGTERM is sent
ConnTimeout ==
  /\ conn # None
  /\ conn[1].status = "running"
  /\ conn' = Some([conn[1] EXCEPT !.status = "killed"])
  /\ UNCHANGED serviceVars
  /\ UNCHANGED promptVars
  /\ UNCHANGED <<manager, disk, vault, context, env, view>>

\* the exit codes "close" can report: the child's own, null after SIGTERM,
\* the negated errno after a failed spawn
ConnCloseCodes ==
  IF conn = None THEN {}
  ELSE CASE conn[1].status = "running" -> {"0", "1"}
         [] conn[1].status = "killed" -> {"null"}
         [] conn[1].status = "errored" -> {"-2"}
         [] OTHER -> {}

\* the "close" listener runs
ConnClose(code) ==
  /\ code \in ConnCloseCodes
  /\ conn' = Some(ConnCloseHandler(conn[1], code))
  /\ UNCHANGED serviceVars
  /\ UNCHANGED promptVars
  /\ UNCHANGED <<manager, disk, vault, context, env, view>>

\* the "error" listener runs
ConnError ==
  /\ conn # None
  /\ conn[1].status = "failing"
  /\ conn' = Some(ConnErrorHandler(conn[1]))
  /\ UNCHANGED serviceVars
  /\ UNCHANGED promptVars
  /\ UNCHANGED <<manager, disk, vault, context, env, view>>

\* ------------------------------------------------------------ the chat view
\* Texts are lengths.  A render is the text renderMarkdownInEl was given and
\* who asked for it: the debounce timer or finalizeResponse.

\* if (this.renderTimer) { clearTimeout(this.renderTimer); this.renderTimer = null }
ClearRenderTimer(v) ==
  IF v.renderTimer THEN [v EXCEPT !.renderTimer = FALSE, !.timeouts = @ - 1]
  ELSE v

\* handleStreamError(error): the error and the retry button are added to the
\* bubble if there is one; nothing is rendered and the timer is left alone
handleStreamError(v) ==
  [v EXCEPT !.ended = Some([by |-> "error", el |-> v.currentStreamEl,
                            text |-> v.currentStreamText, rendered |-> FALSE]),
            !.retryBtn = @ \/ v.currentStreamEl,
            !.isGenerating = FALSE, !.currentStreamEl = FALSE,
            !.currentStreamText = 0, !.last = "handleStreamError"]

\* finalizeResponse(fullText), on the view; text = fullText || currentStreamText
finalizeResponse(v, fullText) ==
  LET w == ClearRenderTimer(v)
      text == IF fullText # 0 THEN fullText ELSE w.currentStreamText
      rendered == w.currentStreamEl /\ text # 0
  IN [w EXCEPT !.renders = IF rendered
                           THEN Append(@, [by |-> "final", text |-> text])
                           ELSE @,
               !.ended = Some([by |-> "complete", el |-> w.currentStreamEl,
                               text |-> text, rendered |-> rendered]),
               !.isGenerating = FALSE, !.currentStreamEl = FALSE,
               !.currentStreamText = 0, !.last = "finalizeResponse"]

\* appendStreamText(text)
appendStreamText(v, n) ==
  LET w == [v EXCEPT !.currentStreamText = @ + n, !.chunks = @ + 1,
                     !.last = "appendStreamText"]
  IN IF w.renderTimer THEN w
     ELSE [w EXCEPT !.renderTimer = TRUE, !.timeouts = @ + 1]

\* the callback of the timeout
renderTimerCallback(v) ==
  [v EXCEPT !.renderTimer = FALSE, !.timeouts = @ - 1,
            !.renders = IF v.currentStreamEl
                        THEN Append(@, [by |-> "timer", text |-> v.currentStreamText])
                        ELSE @,
            !.last = "renderTimer"]

\* handleCancel(), on the view
handleCancel(v) ==
  LET w == ClearRenderTimer(v)
  IN [w EXCEPT !.isGenerating = FALSE,
               !.currentStreamEl = IF @ /\ w.currentStreamText = 0 THEN FALSE ELSE @,
               !.last = "handleCancel"]

\* the prompt handleSend builds: the lengths of its parts
FullPrompt(ctx, mem, text) ==
  [referenced |-> ctx.referenced.length, ambient |-> ctx.ambient.length,
   memory |-> mem.length, request |-> text]

\* handleSend() after the authentication check, for a text that is no slash
\* command: the message is pushed, the prompt is built, the bubble is
\* created and sendMessage is called; when sendMessage rejects without
\* having streamed, the catch reports the error once more
Submit(v, text, out, how) ==
  LET pushed == Append(messages, [role |-> "user", content |-> text])
      split == SplitBudget(settings)
      ctx == VaultContextOf(settings, vault)
      mem == buildConversationMemory(pushed, settings.memoryTurns,
                                     split.memoryBudget)
      fullPrompt == FullPrompt(ctx, mem, text)
      streaming == [v EXCEPT !.isGenerating = TRUE, !.currentStreamText = 0,
                                !.currentStreamEl = TRUE, !.chunks = 0,
                                !.renders = << >>, !.ended = None,
                                !.last = "handleSend"]
  IN /\ Len(messages) <= MaxMessages
     /\ messages' = pushed
     /\ budget' = Some(split)
     /\ context' = Some(ctx)
     /\ memory' = Some(mem)
     /\ args' = Some([prompt |-> fullPrompt, argv |-> buildArgs(settings, fullPrompt)])
     /\ Spawn(out, << >>, how)
     /\ view' = IF how = "throw"
                THEN handleStreamError(handleStreamError(streaming))
                ELSE streaming
     /\ UNCHANGED <<settings, manager, disk, vault, env, conn>>

\* handleSend() whose authentication check answers at once with true
HandleSend(text, out, how) ==
  /\ ~view.isGenerating
  /\ Submit(view, text, out, how)

\* findLastUserMessage(): the content of the last user message, "" if none
findLastUserMessage(msgs) ==
  LET users == {i \in 1..Len(msgs) : msgs[i].role = "user"}
  IN IF users = {} THEN 0
     ELSE msgs[CHOOSE i \in users : \A j \in users : j <= i].content

\* a click on the retry button of an error bubble: the bubble is removed if
\* it is the current one, the last user message is put into the input and
\* handleSend() is called, whose authentication check answers true
Retry(out, how) ==
  /\ view.retryBtn
  /\ findLastUserMessage(messages) # 0
  /\ ~view.isGenerating
  /\ Submit([view EXCEPT !.retries = @ + 1], findLastUserMessage(messages),
            out, how)

\* onTextChunk: a chunk of n characters arrives
AppendStreamText(n) ==
  /\ proc # << >>
  /\ view.chunks < MaxChunks
  /\ view' = appendStreamText(view, n)
  /\ UNCHANGED serviceVars
  /\ UNCHANGED promptVars
  /\ UNCHANGED <<manager, disk, vault, context, env, conn>>

\* 150 ms after it was set the timeout fires
RenderTimer ==
  /\ view.timeouts > 0
  /\ view' = renderTimerCallback(view)
  /\ UNCHANGED serviceVars
  /\ UNCHANGED promptVars
  /\ UNCHANGED <<manager, disk, vault, context, env, conn>>

\* onComplete(fullText): the response is rendered and pushed
FinalizeResponse(fullText) ==
  /\ proc # << >>
  /\ Len(messages) <= MaxMessages
  /\ view' = finalizeResponse(view, fullText)
  /\ messages' = Append(messages,
                        [role |-> "assistant",
                         content |-> view'.ended[1].text])
  /\ UNCHANGED serviceVars
  /\ UNCHANGED <<settings, args, budget, memory>>
  /\ UNCHANGED <<manager, disk, vault, context, env, conn>>

\* onError(error)
HandleStreamError ==
  /\ proc # << >>
  /\ view' = handleStreamError(view)
  /\ UNCHANGED serviceVars
  /\ UNCHANGED promptVars
  /\ UNCHANGED <<manager, disk, vault, context, env, conn>>

\* the cancel button
HandleCancel ==
  /\ CancelService
  /\ view' = handleCancel(view)
  /\ UNCHANGED promptVars
  /\ UNCHANGED <<manager, disk, vault, context, env, conn>>

\* the callbacks handleSend passes to sendMessage, applied to the view:
\* onEvent only sets the status line
Callback(v, c) ==
  CASE c.cb = "onTextChunk" -> appendStreamText(v, Len(c.text))
    [] c.cb = "onComplete" -> finalizeResponse(v, Len(c.text))
    [] c.cb = "onError" -> handleStreamError(v)
    [] OTHER -> v

\* the view after the callbacks of a log, in their order
RECURSIVE Callbacks(_, _)
Callbacks(v, log) ==
  IF log = << >> THEN v
  ELSE Callbacks(Callback(v, Head(log)), Tail(log))

\* the view when sendMessage is called: an empty bubble
StreamingView ==
  [ViewAtOpen EXCEPT !.isGenerating = TRUE, !.currentStreamEl = TRUE,
                     !.last = "handleSend"]

\* one callback applied to the view and its messages: finalizeResponse
\* pushes the assistant message
Deliver(st, c) ==
  LET v == Callback(st.view, c)
  IN [view |-> v,
      messages |-> IF c.cb = "onComplete"
                   THEN Append(st.messages,
                               [role |-> "assistant", content |-> v.ended[1].text])
                   ELSE st.messages]

RECURSIVE Deliveries(_, _)
Deliveries(st, log) ==
  IF log = << >> THEN st
  ELSE Deliveries(Deliver(st, Head(log)), Tail(log))

\* the view after a listener of call p has run: the callbacks it invoked
\* are delivered in order, and when it rejected the promise the catch of
\* handleSend reports the error once more unless text was streamed
AfterCallbacks(p) ==
  LET new == SubSeq(sess'[p].log, Len(sess[p].log) + 1, Len(sess'[p].log))
      st == Deliveries([view |-> view, messages |-> messages], new)
      rejected == sess[p].promise = "pending" /\ sess'[p].promise = "rejected"
  IN /\ view' = IF rejected /\ st.view.currentStreamText = 0
                THEN handleStreamError(st.view)
                ELSE st.view
     /\ messages' = st.messages
     /\ UNCHANGED <<settings, args, budget, memory>>
     /\ UNCHANGED <<manager, disk, vault, context, env, conn>>

\* a stdout chunk of call p arrives and its callbacks reach the view
ChatStdout(p, n) == StdoutDataService(p, n) /\ AfterCallbacks(p)

\* call p's process closes and its callbacks reach the view
ChatClose(p, code) == CloseService(p, code) /\ AfterCallbacks(p)

\* call p's process fails to start and its callback reaches the view
ChatError(p) == ErrorEventService(p) /\ AfterCallbacks(p)

\* what the subprocess of a chat writes: nothing, an assistant message, a
\* failed turn
ChatOutputs == {<< >>, <<"{", "A", "}", NL>>, <<"{", "F", "}", NL>>}

\* ------------------------------------------------ the authentication check

\* ~/.codex/auth.json as isAuthenticated reads it: whether it exists and
\* parses, its "tokens" member (absent, an object without tokens, an object
\* with access_token or refresh_token), its top-level credentials (none, an
\* access_token or token, a string OPENAI_API_KEY, an OPENAI_API_KEY that is
\* no string) and whether auth_mode is "chatgpt"
AuthFile(exists, parses, tokens, top, chatgpt) ==
  [exists |-> exists, parses |-> parses, tokens |-> tokens, top |-> top,
   chatgpt |-> chatgpt]

AuthFiles ==
  {AuthFile(FALSE, FALSE, "absent", "none", FALSE),
   AuthFile(TRUE, FALSE, "absent", "none", FALSE),
   AuthFile(TRUE, TRUE, "token", "none", TRUE),
   AuthFile(TRUE, TRUE, "empty", "none", TRUE),
   AuthFile(TRUE, TRUE, "absent", "key", FALSE),
   AuthFile(TRUE, TRUE, "absent", "nonstring", FALSE),
   AuthFile(TRUE, TRUE, "absent", "none", TRUE)}

\* isAuthenticated(): Some(answer) when the file decides, None when the
\* answer is that of checkAuthViaCli, which spawns `codex login status` and
\* resolves when that process closes
isAuthenticated(f) ==
  IF ~f.exists THEN Some(FALSE)
  ELSE IF ~f.parses THEN None
  ELSE IF f.tokens = "token" THEN Some(TRUE)
  ELSE IF f.top \in {"token", "key"} THEN Some(TRUE)
  ELSE IF f.chatgpt /\ f.tokens # "absent" THEN Some(TRUE)
  ELSE None

\* handleSend() up to the end of the authentication check when the auth
\* file decides it: no other handler runs in between, the continuation
\* being a microtask
HandleSendDecided(f, text, out, how) ==
  /\ isAuthenticated(f) # None
  /\ ~view.isGenerating
  /\ IF isAuthenticated(f)[1]
     THEN Submit(view, text, out, how)
     ELSE /\ view' = [view EXCEPT !.last = "ensureAuthenticated"]
          /\ UNCHANGED serviceVars
          /\ UNCHANGED promptVars
          /\ UNCHANGED <<manager, disk, vault, context, env, conn>>

\* handleSend() up to `await this.plugin.ensureAuthenticated()` when the
\* answer is that of `codex login status`: the invocation is suspended
\* until that process closes
HandleSendAwait(f) ==
  /\ isAuthenticated(f) = None
  /\ ~view.isGenerating
  /\ view.awaiting < MaxAwaiting
  /\ view' = [view EXCEPT !.awaiting = @ + 1]
  /\ UNCHANGED serviceVars
  /\ UNCHANGED promptVars
  /\ UNCHANGED <<manager, disk, vault, context, env, conn>>

\* `codex login status` of a suspended invocation closes and handleSend
\* goes on after the await: if (!authenticated) return, else the message
\* is submitted
HandleSendResume(authenticated, text, out, how) ==
  /\ view.awaiting > 0
  /\ IF authenticated
     THEN Submit([view EXCEPT !.awaiting = @ - 1], text, out, how)
     ELSE /\ view' = [view EXCEPT !.awaiting = @ - 1,
                                  !.last = "ensureAuthenticated"]
          /\ UNCHANGED serviceVars
          /\ UNCHANGED promptVars
          /\ UNCHANGED <<manager, disk, vault, context, env, conn>>

\* ------------------------------------------------------------ conversations
\* The SessionManager of sessions.ts.  A session is its id, its name and its
\* messages, of which the model keeps the number.  createSessionObject takes
\* the id from the clock and Math.random: the model numbers them, each one
\* new.  Ids read from the data file are numbers above a hundred.

MAX_PERSISTED_MESSAGES == 50

\* createSessionObject(name)
createSessionObject(m, name) == [id |-> m.next, name |-> name, messages |-> 0]

\* `Chat ${n}`
ChatName(n) == <<"Chat", n>>

\* this.sessions.find((s) => s.id === id): its index, 0 for undefined
Find(sessions, id) ==
  IF \E i \in 1..Len(sessions) : sessions[i].id = id
  THEN CHOOSE i \in 1..Len(sessions) :
         /\ sessions[i].id = id
         /\ \A j \in 1..(i - 1) : sessions[j].id # id
  ELSE 0

\* getActiveSession(): the index of the session it returns, 0 for null
getActiveSession(m) ==
  LET found == IF m.activeSessionId = None THEN 0
               ELSE Find(m.sessions, m.activeSessionId[1])
  IN IF found # 0 THEN found
     ELSE IF m.sessions # << >> THEN 1
     ELSE 0

\* the manager whose only session is a new "Chat 1", which is active
FreshManager(m, op, id) ==
  [sessions |-> <<createSessionObject(m, ChatName(1))>>,
   activeSessionId |-> Some(m.next), next |-> m.next + 1,
   last |-> [op |-> op, id |-> id, returned |-> None]]

\* load(), its data read
load(m, data) ==
  LET migrate == data.chatSessions = None /\ data.chatMessages # None
      sessions == IF data.chatSessions # None THEN data.chatSessions[1]
                  ELSE IF migrate
                  THEN <<[createSessionObject(m, ChatName(1))
                            EXCEPT !.messages = data.chatMessages[1]]>>
                  ELSE m.sessions
      next == IF migrate THEN m.next + 1 ELSE m.next
      active == IF data.activeSessionId # None THEN data.activeSessionId
                ELSE IF sessions # << >> THEN Some(sessions[1].id)
                ELSE None
      loaded == [sessions |-> sessions, activeSessionId |-> active,
                 next |-> next,
                 last |-> [op |-> "load", id |-> 0, returned |-> None]]
  IN IF sessions = << >> THEN FreshManager(loaded, "load", 0) ELSE loaded

\* createSession() without a name
createSession(m) ==
  LET session == createSessionObject(m, ChatName(Len(m.sessions) + 1))
  IN [sessions |-> Append(m.sessions, session),
      activeSessionId |-> Some(session.id), next |-> m.next + 1,
      last |-> [op |-> "createSession", id |-> session.id,
                returned |-> Some(session.id)]]

\* switchTo(id); returned is the id of the session returned, None for null
switchTo(m, id) ==
  IF Find(m.sessions, id) # 0
  THEN [m EXCEPT !.activeSessionId = Some(id),
                 !.last = [op |-> "switchTo", id |-> id, returned |-> Some(id)]]
  ELSE [m EXCEPT !.last = [op |-> "switchTo", id |-> id, returned |-> None]]

\* rename(id, newName)
rename(m, id, newName) ==
  LET i == Find(m.sessions, id)
      n == [m EXCEPT !.last = [op |-> "rename", id |-> id, returned |-> None]]
  IN IF i # 0 THEN [n EXCEPT !.sessions[i].name = newName] ELSE n

\* this.sessions.filter((s) => s.id !== id)
RECURSIVE Without(_, _)
Without(sessions, id) ==
  IF sessions = << >> THEN << >>
  ELSE IF Head(sessions).id = id THEN Without(Tail(sessions), id)
  ELSE <<Head(sessions)>> \o Without(Tail(sessions), id)

\* deleteSession(id)
deleteSession(m, id) ==
  LET sessions == Without(m.sessions, id)
      active == IF m.activeSessionId = Some(id)
                THEN IF sessions # << >> THEN Some(sessions[1].id) ELSE None
                ELSE m.activeSessionId
      n == [m EXCEPT !.sessions = sessions, !.activeSessionId = active,
                     !.last = [op |-> "deleteSession", id |-> id,
                               returned |-> None]]
  IN IF sessions = << >> THEN FreshManager(n, "deleteSession", id) ELSE n

\* updateMessages(messages), of n messages
updateMessages(m, n) ==
  LET i == getActiveSession(m)
      u == [m EXCEPT !.last = [op |-> "updateMessages", id |-> 0,
                               returned |-> None]]
  IN IF i # 0 THEN [u EXCEPT !.sessions[i].messages = n] ELSE u

\* whether save() is called by the operation that made n of m
Saves(m, n) ==
  CASE n.last.op \in {"createSession", "deleteSession"} -> TRUE
    [] n.last.op = "switchTo" -> n.last.returned # None
    [] n.last.op = "rename" -> Find(m.sessions, n.last.id) # 0
    [] n.last.op = "updateMessages" -> getActiveSession(m) # 0
    [] OTHER -> FALSE

\* ------------------------------------------------------------ the data file
\* save() and saveSettings() each await loadData(), change what it gave and
\* await saveData().  A task is one of them under way: "loading" until the
\* file is read, "loaded" until the continuation has built the data to
\* store, "storing" until the file is written; held is the data it holds.

Task(kind) == [kind |-> kind, phase |-> "loading", held |-> NoData]

\* s.messages.slice(-MAX_PERSISTED_MESSAGES), of each session
Persisted(sessions) ==
  [i \in 1..Len(sessions) |->
     [sessions[i] EXCEPT !.messages = IF @ > MAX_PERSISTED_MESSAGES
                                      THEN MAX_PERSISTED_MESSAGES ELSE @]]

\* the continuation of save() after loadData()
saveData(existing, m) ==
  [existing EXCEPT !.chatSessions = Some(Persisted(m.sessions)),
                   !.activeSessionId = m.activeSessionId,
                   !.chatMessages = None]

\* const { chatMessages, ...settingsData } = data: what this.settings holds
\* of the file besides the settings
loadSettings(data) == [data EXCEPT !.settings = None, !.chatMessages = None]

\* { ...existing, ...this.settings }
Merged(existing, st, carried) ==
  [settings |-> Some(st),
   chatSessions |-> IF carried.chatSessions # None THEN carried.chatSessions
                    ELSE existing.chatSessions,
   activeSessionId |-> IF carried.activeSessionId # None
                       THEN carried.activeSessionId
                       ELSE existing.activeSessionId,
   chatMessages |-> existing.chatMessages]

\* `void this.save()` when the operation calls it
StartSave(m, n) ==
  IF Saves(m, n) THEN [disk EXCEPT !.tasks = Append(@, Task("save"))] ELSE disk

\* an operation of the session manager, on behalf of the view
Operation(n) ==
  /\ manager.last.op # "constructor"
  /\ Saves(manager, n) => Len(disk.tasks) < MaxTasks
  /\ n.next <= MaxIds + 1
  /\ manager' = n
  /\ disk' = StartSave(manager, n)
  /\ UNCHANGED serviceVars
  /\ UNCHANGED promptVars
  /\ UNCHANGED <<vault, context, env, conn, view>>

\* onload: loadSettings(), then the session manager's load()
Load ==
  /\ manager.last.op = "constructor"
  /\ manager' = load(manager, disk.data)
  /\ disk' = [disk EXCEPT !.carried = loadSettings(disk.data)]
  /\ UNCHANGED serviceVars
  /\ UNCHANGED promptVars
  /\ UNCHANGED <<vault, context, env, conn, view>>

CreateSession ==
  /\ Len(manager.sessions) < MaxSessions
  /\ Operation(createSession(manager))

SwitchTo(id) == Operation(switchTo(manager, id))

Rename(id, newName) == Operation(rename(manager, id, newName))

DeleteSession(id) == Operation(deleteSession(manager, id))

UpdateMessages(n) == Operation(updateMessages(manager, n))

\* the settings tab changes a setting and calls saveSettings()
OnChangeSetting(path) ==
  /\ manager.last.op # "constructor"
  /\ Len(disk.tasks) < MaxTasks
  /\ settings' = [settings EXCEPT !.codexBinaryPath = path]
  /\ disk' = [disk EXCEPT !.tasks = Append(@, Task("saveSettings"))]
  /\ UNCHANGED serviceVars
  /\ UNCHANGED <<messages, args, budget, memory>>
  /\ UNCHANGED <<manager, vault, context, env, conn, view>>

\* loadData() of task i reads the file
TaskRead(i) ==
  /\ i \in DOMAIN disk.tasks
  /\ disk.tasks[i].phase = "loading"
  /\ disk' = [disk EXCEPT !.tasks[i].phase = "loaded",
                          !.tasks[i].held = disk.data]
  /\ UNCHANGED serviceVars
  /\ UNCHANGED promptVars
  /\ UNCHANGED <<manager, vault, context, env, conn, view>>

\* task i goes on after `await loadData()` and calls saveData()
TaskResume(i) ==
  /\ i \in DOMAIN disk.tasks
  /\ disk.tasks[i].phase = "loaded"
  /\ disk' = [disk EXCEPT
                !.tasks[i].phase = "storing",
                !.tasks[i].held = IF disk.tasks[i].kind = "save"
                                  THEN saveData(@, manager)
                                  ELSE Merged(@, settings, disk.carried)]
  /\ UNCHANGED serviceVars
  /\ UNCHANGED promptVars
  /\ UNCHANGED <<manager, vault, context, env, conn, view>>

\* the tasks without the i-th
Remove(tasks, i) == SubSeq(tasks, 1, i - 1) \o SubSeq(tasks, i + 1, Len(tasks))

\* saveData() of task i writes the file; saveSettings then clears the
\* environment cache and has the services resolve the binary again
TaskWrite(i, m) ==
  /\ i \in DOMAIN disk.tasks
  /\ disk.tasks[i].phase = "storing"
  /\ disk' = [disk EXCEPT !.data = disk.tasks[i].held,
                          !.tasks = Remove(@, i)]
  /\ env' = IF disk.tasks[i].kind = "saveSettings"
            THEN [clearShellEnvCache(env) EXCEPT
                    !.resolved = Some(ResolveCall(settings.codexBinaryPath, m))]
            ELSE env
  /\ UNCHANGED serviceVars
  /\ UNCHANGED promptVars
  /\ UNCHANGED <<manager, vault, context, conn, view>>

\* the sessions a data file may hold, and the data files
StoredSession(id, n) == [id |-> id, name |-> ChatName(1), messages |-> n]
StoredData ==
  {NoData,
   [NoData EXCEPT !.chatMessages = Some(2)],
   [NoData EXCEPT !.chatSessions = Some(<< >>)],
   [NoData EXCEPT !.chatSessions = Some(<<StoredSession(101, 1)>>)],
   [NoData EXCEPT !.chatSessions = Some(<<StoredSession(101, 1)>>),
                  !.activeSessionId = Some(101)],
   [NoData EXCEPT !.chatSessions = Some(<<StoredSession(101, 1),
                                          StoredSession(102, 0)>>),
                  !.activeSessionId = Some(102)],
   [NoData EXCEPT !.chatSessions = Some(<<StoredSession(101, 1)>>),
                  !.activeSessionId = Some(109)]}

\* the ids the view may ask for: those of the list, and one of no session
Ids == {manager.sessions[i].id : i \in DOMAIN manager.sessions} \cup {109}

\* --------------------------------------------------------- specifications

\* the service: any interleaving of sendMessage, cancel and process events
Next ==
  \/ /\ Len(proc) < MaxCalls
     /\ \E out \in LifeOutputs, how \in {"ok", "enoent", "throw"} :
          SendMessage(out, << >>, how)
  \/ Cancel
  \/ \E p \in DOMAIN proc : \E n \in 1..Len(proc[p].pending) : StdoutData(p, n)
  \/ \E p \in DOMAIN proc : \E code \in CloseCodes(p) : Close(p, code)
  \/ \E p \in DOMAIN proc : ErrorEvent(p)

Spec == Init /\ [][Next]_vars

\* an event of some child process is delivered to its listener
ProcessEvent ==
  \E p \in DOMAIN proc :
    \/ \E n \in 1..Len(proc[p].pending) : StdoutData(p, n)
    \/ \E code \in CloseCodes(p) : Close(p, code)
    \/ ErrorEvent(p)

\* The service with processes that run to their end: the event loop goes on
\* delivering process events while there are any, so that a child delivers
\* what it wrote, a child that could not be started emits "error", and
\* every child is eventually reported closed.
Fairness == WF_vars(ProcessEvent)

\* the service again, with fewer calls
NextFair ==
  \/ /\ Len(proc) < MaxFairCalls
     /\ \E out \in LifeOutputs, how \in {"ok", "enoent", "throw"} :
          SendMessage(out, << >>, how)
  \/ Cancel
  \/ ProcessEvent

SpecFair == Init /\ [][NextFair]_vars /\ Fairness

\* one call and its stream: every output, cut into chunks in every way
NextStream ==
  \/ /\ Len(proc) = 0
     /\ \E out \in StreamOutputs : SendMessage(out, << >>, "ok")
  \/ Cancel
  \/ \E p \in DOMAIN proc : \E n \in 1..Len(proc[p].pending) : StdoutData(p, n)
  \/ \E p \in DOMAIN proc : \E code \in CloseCodes(p) : Close(p, code)

SpecStream == Init /\ [][NextStream]_vars

\* one call that also writes to stderr
NextStderr ==
  \/ /\ Len(proc) = 0
     /\ \E out \in LifeOutputs, err \in StderrOutputs : SendMessage(out, err, "ok")
  \/ Cancel
  \/ \E p \in DOMAIN proc : \E n \in 1..Len(proc[p].pending) : StdoutData(p, n)
  \/ \E p \in DOMAIN proc : StderrData(p)
  \/ \E p \in DOMAIN proc : \E code \in CloseCodes(p) : Close(p, code)

SpecStderr == Init /\ [][NextStderr]_vars

TypeOK ==
  /\ currentProcess \in 0..Len(proc)
  /\ abortController \in 0..Len(proc)
  /\ Len(sess) = Len(proc)

\* the argument vector of a call, for any settings
InitArgs ==
  /\ ServiceIdle
  /\ settings \in ArgSettings
  /\ messages = << >>
  /\ NothingBuilt
  /\ vault = EmptyVault
  /\ PluginAtLoad

NextArgs == \E prompt \in Prompts : BuildArgs(prompt)

SpecArgs == InitArgs /\ [][NextArgs]_vars

\* the budget split, for any setting of the two sliders
InitBudget ==
  /\ ServiceIdle
  /\ settings \in BudgetSettings
  /\ messages = << >>
  /\ NothingBuilt
  /\ vault = EmptyVault
  /\ PluginAtLoad

NextBudget == Budget

SpecBudget == InitBudget /\ [][NextBudget]_vars

\* the conversation memory, for any conversation of the view
InitMemory ==
  /\ ServiceIdle
  /\ settings \in MemorySettings
  /\ messages \in Conversations(MaxMessages)
  /\ NothingBuilt
  /\ vault = EmptyVault
  /\ PluginAtLoad

NextMemory == BuildMemory

SpecMemory == InitMemory /\ [][NextMemory]_vars

\* the formatting of one note, for any note and any length
InitFormat ==
  /\ ServiceIdle
  /\ settings = DEFAULT_SETTINGS
  /\ messages = << >>
  /\ NothingBuilt
  /\ \E note \in FormatNotes : vault = [EmptyVault EXCEPT !.active = Some(note)]
  /\ PluginAtLoad

NextFormat == \E maxLength \in FormatLengths : FormatNote(maxLength)

SpecFormat == InitFormat /\ [][NextFormat]_vars

\* the assembly of the vault context of one prompt
InitContext ==
  /\ ServiceIdle
  /\ settings \in ContextSettings
  /\ messages = << >>
  /\ NothingBuilt
  /\ vault \in Vaults
  /\ PluginAtLoad

NextContext == AssembleContext

SpecContext == InitContext /\ [][NextContext]_vars

\* the shell environment: spawns ask for it, the settings are saved
InitEnv == Init

NextEnv ==
  \/ \E m \in EnvMachines : GetShellEnv(m)
  \/ \E path \in {Codex, OptCodex} : OnChangeBinaryPath(path)
  \/ \E m \in EnvMachines : SaveSettings(m)

SpecEnv == InitEnv /\ [][NextEnv]_vars

\* the resolution of the configured binary, for any setting and any machine
InitResolve ==
  /\ ServiceIdle
  /\ settings \in {[DEFAULT_SETTINGS EXCEPT !.codexBinaryPath = path] :
                     path \in ConfiguredPaths}
  /\ messages = << >>
  /\ NothingBuilt
  /\ vault = EmptyVault
  /\ PluginAtLoad

NextResolve == \E m \in Machines : ResolveBinary(m)

SpecResolve == InitResolve /\ [][NextResolve]_vars

\* the connection test of a service constructed on any machine
InitConn == InitResolve

NextConn ==
  \/ \E m \in Machines : ResolveBinary(m)
  \/ \E m \in EnvMachines, how \in {"ok", "enoent", "throw"} : TestConnection(m, how)
  \/ ConnTimeout
  \/ \E code \in {"0", "1", "null", "-2"} : ConnClose(code)
  \/ ConnError

SpecConn == InitConn /\ [][NextConn]_vars

\* one message sent from any conversation
InitSend ==
  /\ ServiceIdle
  /\ settings \in MemorySettings
  /\ messages \in Conversations(MaxMessages)
  /\ NothingBuilt
  /\ vault = EmptyVault
  /\ PluginAtLoad

NextSend ==
  \E text \in ContentLengths, how \in {"ok", "enoent", "throw"} :
    HandleSend(text, << >>, how)

SpecSend == InitSend /\ [][NextSend]_vars

\* the chat view: messages are sent, their responses stream, complete, fail
\* or are cancelled
InitView == Init

NextView ==
  \/ \E how \in {"ok", "throw"} : HandleSend(100, << >>, how)
  \/ AppendStreamText(5)
  \/ RenderTimer
  \/ \E fullText \in {0, view.currentStreamText} : FinalizeResponse(fullText)
  \/ HandleStreamError
  \/ HandleCancel

SpecView == InitView /\ [][NextView]_vars

\* the chat view with its service: messages are sent and cancelled, and the
\* events of their subprocesses reach the view through the callbacks
NextChat ==
  \/ /\ Len(proc) < MaxSends
     /\ \E out \in ChatOutputs, how \in {"ok", "enoent"} : HandleSend(100, out, how)
  \/ /\ Len(proc) < MaxSends
     /\ \E out \in ChatOutputs, how \in {"ok", "enoent"} : Retry(out, how)
  \/ HandleCancel
  \/ RenderTimer
  \/ \E p \in DOMAIN proc : \E n \in {Len(proc[p].pending)} : ChatStdout(p, n)
  \/ \E p \in DOMAIN proc : \E code \in CloseCodes(p) : ChatClose(p, code)
  \/ \E p \in DOMAIN proc : ChatError(p)

SpecChat == Init /\ [][NextChat]_vars

\* the chat view whose sends wait for the authentication check
NextAuth ==
  \/ /\ Len(proc) < MaxSends
     /\ \E f \in AuthFiles, out \in ChatOutputs : HandleSendDecided(f, 100, out, "ok")
  \/ \E f \in AuthFiles : HandleSendAwait(f)
  \/ /\ Len(proc) < MaxSends
     /\ \E authenticated \in BOOLEAN, out \in ChatOutputs :
          HandleSendResume(authenticated, 100, out, "ok")
  \/ HandleCancel
  \/ RenderTimer
  \/ \E p \in DOMAIN proc : \E n \in {Len(proc[p].pending)} : ChatStdout(p, n)
  \/ \E p \in DOMAIN proc : \E code \in CloseCodes(p) : ChatClose(p, code)

SpecAuth == Init /\ [][NextAuth]_vars

\* the conversations of a plugin loaded from any data file.  The fields of
\* the manager do not depend on the saves it starts: here each save is over
\* before the next operation
InitSessions ==
  /\ ServiceIdle
  /\ settings = DEFAULT_SETTINGS
  /\ messages = << >>
  /\ NothingBuilt
  /\ vault = EmptyVault
  /\ env = EnvAtLoad /\ conn = None /\ view = ViewAtOpen
  /\ manager = ManagerAtConstruction
  /\ disk \in {[DiskAtLoad EXCEPT !.data = data] : data \in StoredData}

NextSessions ==
  \/ Load
  \/ disk.tasks = << >> /\ CreateSession
  \/ disk.tasks = << >> /\ \E id \in Ids : SwitchTo(id)
  \/ disk.tasks = << >> /\ \E id \in Ids : Rename(id, <<"Ideas">>)
  \/ disk.tasks = << >> /\ \E id \in Ids : DeleteSession(id)
  \/ disk.tasks = << >> /\ UpdateMessages(2)
  \/ TaskRead(1)
  \/ TaskResume(1)
  \/ \E m \in EnvMachines : TaskWrite(1, m)

SpecSessions == InitSessions /\ [][NextSessions]_vars

\* the data file of a plugin whose history and settings change while saves
\* of both are under way
InitStore == InitSessions

NextStore ==
  \/ Load
  \/ \E n \in {2, MAX_PERSISTED_MESSAGES + 1} : UpdateMessages(n)
  \/ OnChangeSetting(OptCodex)
  \/ \E i \in DOMAIN disk.tasks : TaskRead(i)
  \/ \E i \in DOMAIN disk.tasks : TaskResume(i)
  \/ \E i \in DOMAIN disk.tasks, m \in EnvMachines : TaskWrite(i, m)

SpecStore == InitStore /\ [][NextStore]_vars

\* ------------------------------------------------------------------ claims

Calls == DOMAIN proc

\* how many times the callbacks named in cbs were invoked
Count(log, cbs) == Cardinality({i \in 1..Len(log) : log[i].cb \in cbs})

Terminals(p) == Count(sess[p].log, {"onComplete", "onError"})

\* call p is over: its process was reported closed, or spawn threw
Over(p) == proc[p].status \in {"closed", "nospawn"}

\* the step is the close listener of call p, run with exit code `code`
ClosesWith(p, code) ==
  /\ proc[p].status \in {"running", "errored"}
  /\ proc'[p].status = "closed"
  /\ proc'[p].code = code

\* C1: over the lifetime of a sendMessage call exactly one of onComplete /
\* onError is invoked: never more than one terminal callback, and one once
\* the call is over.
C1_ExactlyOneTerminal ==
  \A p \in Calls :
    /\ Terminals(p) <= 1
    /\ Over(p) => Terminals(p) = 1

\* C2: at most one subprocess of the service is alive without having been
\* sent a termination signal.
C2_AtMostOneUnsignalled ==
  Cardinality({p \in Calls : proc[p].status = "running" /\ proc[p].signals = 0}) <= 1

\* C3: whenever a spawned subprocess has not exited and has not been
\* signalled, cancel() sends it a termination signal.
C3_CancelSignalsLive ==
  \A p \in Calls :
    proc[p].status = "running" /\ proc[p].signals = 0
      => CancelOf(Service).proc[p].signals > 0

\* C4: when the close listener runs for a process ended by the signal (exit
\* code null), it reports through onComplete and not onError, with the text
\* accumulated at that point (the unterminated rest of the buffer included),
\* and fulfils the promise.
C4_CancelCompletes ==
  [][\A p \in Calls :
       ClosesWith(p, "null") =>
         LET s == FinalFlush(sess[p]) IN
         /\ sess'[p].log = Append(s.log, OnComplete(s.fullText, s.lastUsage))
         /\ sess'[p].promise = "fulfilled"]_vars

\* a session killed mid-stream, with text accumulated, has completed
C4_Witness ==
  \E p \in Calls :
    /\ proc[p].code = "null"
    /\ proc[p].pending # << >>
    /\ sess[p].fullText # << >>
    /\ sess[p].log[Len(sess[p].log)] = OnComplete(sess[p].fullText, sess[p].lastUsage)
    /\ sess[p].promise = "fulfilled"

\* C5: cancel() is idempotent and safe: a second cancel() changes nothing
\* (no field, no further signal); with no process handle held it sends no
\* signal, and with no session held at all it changes nothing.  cancel()
\* reads and writes the service only, so it invokes no callback.
C5_CancelIdempotent ==
  LET once == CancelOf(Service)
      twice == CancelOf(once)
  IN /\ twice = once
     /\ currentProcess = 0 => once.proc = proc
     /\ (currentProcess = 0 /\ abortController = 0) => once = Service

\* cancel() has acted on a running process: it holds the signal, and the
\* service holds nothing
C5_Witness ==
  /\ currentProcess = 0
  /\ abortController = 0
  /\ \E p \in Calls : proc[p].status = "running" /\ proc[p].signals > 0

\* the lines of a text, the unterminated rest included when `all`
LinesOf(text, all) ==
  LET segs == Split(text) IN
  IF all THEN segs ELSE SubSeq(segs, 1, Len(segs) - 1)

\* a line that is a structured record (a JSON object)
IsRecordLine(l) ==
  JSONParse(Trim(l)).ok /\ JSONParse(Trim(l)).val.kind = "object"

\* a non-empty line that fails to decode
IsMalformed(l) == Trim(l) # << >> /\ ~JSONParse(Trim(l)).ok

\* the records of the record lines of a text, in line order
RECURSIVE RecordsOf(_)
RecordsOf(lines) ==
  IF lines = << >> THEN << >>
  ELSE (IF IsRecordLine(Head(lines))
        THEN <<JSONParse(Trim(Head(lines))).val>> ELSE << >>)
       \o RecordsOf(Tail(lines))

\* the records onEvent was invoked with, in invocation order
RECURSIVE EventsOf(_)
EventsOf(log) ==
  IF log = << >> THEN << >>
  ELSE (IF Head(log).cb = "onEvent" /\ Head(log).ev.kind = "object"
        THEN <<Head(log).ev>> ELSE << >>)
       \o EventsOf(Tail(log))

\* C6: onEvent is invoked exactly once for each well-formed structured
\* line, with the decoded record, in the order of the lines in the output:
\* at every moment the records passed to onEvent are the records of the
\* lines received so far (of all the output once the process has closed).
C6_EventPerRecordLine ==
  \A p \in Calls :
    proc[p].status \in {"running", "closed"} =>
      EventsOf(sess[p].log)
        = RecordsOf(LinesOf(TextDecode(proc[p].delivered),
                            proc[p].status = "closed"))

\* the step delivers a stdout chunk to call p
DataStep(p) ==
  /\ proc[p].status = "running"
  /\ proc'[p].status = "running"
  /\ Len(proc'[p].delivered) > Len(proc[p].delivered)

\* the lines that chunk completes
Completed(p) ==
  LET data == SubSeq(proc'[p].delivered, Len(proc[p].delivered) + 1,
                     Len(proc'[p].delivered))
  IN LinesOf(sess[p].stdoutBuffer \o TextDecode(data), FALSE)

\* there is at least one line, and every line is non-empty and fails to
\* decode
AllMalformed(lines) ==
  /\ lines # << >>
  /\ \A i \in 1..Len(lines) : IsMalformed(lines[i])

RECURSIVE Concat(_)
Concat(ss) == IF ss = << >> THEN << >> ELSE Head(ss) \o Concat(Tail(ss))

\* the step is the close listener of call p
Closes(p) ==
  /\ proc[p].status \in {"running", "errored"}
  /\ proc'[p].status = "closed"

SingleChunk(p) ==
  CloseHandler(
    StdoutDataHandler([NewSession EXCEPT !.stderrBuffer = sess[p].stderrBuffer],
                      proc[p].delivered),
    proc[p].code)

\* C8: however the output is cut into chunks, the callbacks invoked, their
\* arguments and the settlement of the promise are those of delivering the
\* same output in a single chunk.
C8_ChunkingInvisible ==
  \A p \in Calls :
    (proc[p].status = "closed" /\ proc[p].code # "-2") =>
      /\ sess[p].log = SingleChunk(p).log
      /\ sess[p].promise = SingleChunk(p).promise

\* the last non-empty line of a text (<< >> when there is none)
RECURSIVE LastLine(_)
LastLine(lines) ==
  IF lines = << >> THEN << >>
  ELSE IF Trim(lines[Len(lines)]) # << >> THEN Trim(lines[Len(lines)])
  ELSE LastLine(SubSeq(lines, 1, Len(lines) - 1))

\* C9: when the last line of the output is an item.completed record with an
\* agent_message item of text T and the process exits 0, onTextChunk(T) is
\* invoked, then onComplete(T, usage), usage being undefined when no usage
\* record was in the output.  (Stated for the outputs that raise no
\* exception in the stdout listener.)
C9_AgentMessageCompletes ==
  \A p \in Calls :
    LET lines == LinesOf(TextDecode(proc[p].delivered), TRUE)
        n == Len(sess[p].log)
    IN (/\ proc[p].status = "closed"
        /\ proc[p].code = "0"
        /\ ~sess[p].uncaught
        /\ LastLine(lines) = <<"{", "A", "}">>)
       => /\ n >= 2
          /\ sess[p].log[n - 1] = OnTextChunk(AgentText)
          /\ sess[p].log[n].cb = "onComplete"
          /\ sess[p].log[n].text = AgentText
          /\ (\A i \in 1..Len(lines) : Trim(lines[i]) # <<"{", "U", "}">>)
               => sess[p].log[n].usage = None

\* C10: at close, the unterminated rest of the buffer, when it decodes to a
\* record, is dispatched exactly as the live loop dispatches that line.
C10_FlushLikeLive ==
  [][\A p \in Calls :
       (Closes(p) /\ IsRecordLine(sess[p].stdoutBuffer)) =>
         sess'[p] = CloseOutcome(LiveLines(sess[p], <<sess[p].stdoutBuffer>>),
                                 proc'[p].code)]_vars

\* C11: when the close listener runs with exit code 0, or with any text
\* accumulated (the final pass over the buffer included), it invokes
\* onComplete once, with the accumulated text and the last usage, fulfils
\* the promise, and invokes no onError, whatever the exit code.
C11_CloseSucceeds ==
  [][\A p \in Calls :
       Closes(p) =>
         \A s \in {FinalFlush(sess[p])} :
           (proc'[p].code = "0" \/ s.fullText # << >>) =>
             /\ sess'[p].log = Append(s.log, OnComplete(s.fullText, s.lastUsage))
             /\ Count(sess'[p].log, {"onComplete"}) = 1
             /\ Count(sess'[p].log, {"onError"}) = Count(sess[p].log, {"onError"})
             /\ sess'[p].promise = "fulfilled"]_vars

\* a process that exited with code 1 after text was accumulated: completed
C11_Witness ==
  \E p \in Calls :
    /\ proc[p].status = "closed"
    /\ proc[p].code = "1"
    /\ sess[p].fullText # << >>
    /\ sess[p].promise = "fulfilled"
    /\ sess[p].log[Len(sess[p].log)] = OnComplete(sess[p].fullText, sess[p].lastUsage)

\* s is the sequence t, or a beginning of it
IsPrefix(s, t) == Len(s) <= Len(t) /\ s = SubSeq(t, 1, Len(s))

\* no callback of call p was given anything written to stderr
NoStderrIn(log) ==
  \A i \in 1..Len(log) :
    log[i].cb \in {"onEvent", "onTextChunk", "onComplete"} =>
      \A j \in 1..Len(log[i].text) : log[i].text[j] # "w"

\* C12: when the close listener runs with a non-zero integer exit code and
\* no text accumulated, it invokes onError with a message made of the exit
\* code and at most the first 500 characters of the buffered stderr, and
\* rejects the promise; what the process wrote to stderr is never given to
\* onTextChunk or onEvent and is never part of the text given to onComplete.
C12_CloseFails ==
  [][\A p \in Calls :
       /\ NoStderrIn(sess'[p].log)
       /\ Closes(p) =>
            \A s \in {FinalFlush(sess[p])} :
              (proc'[p].code \notin {"0", "null"} /\ s.fullText = << >>) =>
                \E excerpt \in {SubSeq(sess'[p].log[Len(sess'[p].log)].text, 4,
                                       Len(sess'[p].log[Len(sess'[p].log)].text))} :
                  /\ Len(sess'[p].log) = Len(s.log) + 1
                  /\ sess'[p].log[Len(sess'[p].log)].cb = "onError"
                  /\ SubSeq(sess'[p].log[Len(sess'[p].log)].text, 1, 2)
                       = <<"Codex exited with code ", proc'[p].code>>
                  /\ Len(excerpt) <= StderrExcerptLen
                  /\ IsPrefix(excerpt, sess[p].stderrBuffer)
                  /\ sess'[p].promise = "rejected"]_vars

\* a process that wrote more than 500 characters to stderr and exited with
\* code 1 without text: the error message carries the first 500 of them
C12_Witness ==
  \E p \in Calls :
    /\ proc[p].status = "closed"
    /\ proc[p].code = "1"
    /\ Len(sess[p].stderrBuffer) > StderrExcerptLen
    /\ sess[p].promise = "rejected"
    /\ sess[p].log = <<OnError(<<"Codex exited with code ", "1", ". ">>
                               \o SubSeq(sess[p].stderrBuffer, 1, StderrExcerptLen))>>

\* the messages of the onError calls made for records, in invocation order:
\* every onError but the one that reports how the process ended
RECURSIVE RecordErrors(_)
RecordErrors(log) ==
  IF log = << >> THEN << >>
  ELSE (IF /\ Head(log).cb = "onError"
           /\ Head(log).text[1] \notin {"Codex exited with code ",
                                        "Failed to run Codex: ",
                                        "Failed to start Codex CLI. Is it installed?"}
        THEN <<Head(log).text>> ELSE << >>)
       \o RecordErrors(Tail(log))

\* the message a failure record calls for: error.message, else the item
\* text, else the generic fallback
RECURSIVE FailureMessages(_)
FailureMessages(events) ==
  IF events = << >> THEN << >>
  ELSE (IF Head(events).type \in {"turn.failed", "error"}
        THEN <<IF Head(events).errorMessage # None THEN Head(events).errorMessage[1]
               ELSE IF Head(events).itemText # None THEN Head(events).itemText[1]
               ELSE <<"Unknown error">> >>
        ELSE << >>)
       \o FailureMessages(Tail(events))

\* C13: onError is invoked for every decoded record of type turn.failed or
\* error, with error.message, else the item text, else a generic fallback,
\* and for no record of another type: the onError calls made for records
\* are, in order, the messages of the failure records decoded so far.
C13_ErrorPerFailureRecord ==
  \A p \in Calls :
    RecordErrors(sess[p].log) = FailureMessages(EventsOf(sess[p].log))

\* the spawn of call p failed, by an exception of spawn() or by the "error"
\* event of the child, and has been reported
SpawnFailed(p) ==
  \/ proc[p].status \in {"nospawn", "errored"}
  \/ proc[p].status = "closed" /\ proc[p].code = "-2"

\* C14: a failed spawn is reported by exactly one onError and the promise
\* is rejected; afterwards, until the next sendMessage, the service holds
\* no process handle and no abort controller, isRunning() is false and
\* cancel() has nothing to act on.
C14_SpawnFailureLeavesNothing ==
  \A p \in Calls :
    (SpawnFailed(p) /\ p = Len(proc)) =>
      /\ Count(sess[p].log, {"onError"}) = 1
      /\ Count(sess[p].log, {"onComplete"}) = 0
      /\ sess[p].promise = "rejected"
      /\ currentProcess = 0
      /\ abortController = 0
      /\ CancelOf(Service) = Service

\* how many of the lines decode as JSON, to an object or to another value
Decodable(lines) ==
  Cardinality({i \in 1..Len(lines) : JSONParse(Trim(lines[i])).ok})

\* C15: the stdout listener never lets an exception escape, whatever the
\* lines of a chunk decode to, and it goes on to the later lines of the
\* chunk: while the process runs, onEvent has been invoked once for every
\* complete line received that decodes.
C15_NoExceptionEscapes ==
  \A p \in Calls :
    /\ ~sess[p].uncaught
    /\ proc[p].status = "running" =>
         Count(sess[p].log, {"onEvent"})
           = Decodable(LinesOf(TextDecode(proc[p].delivered), FALSE))

\* C16: if every spawned process eventually delivers its close or error
\* event, the promise of every sendMessage call is eventually settled, also
\* for a call that was cancelled or superseded by a later sendMessage; and
\* a promise is never settled before onComplete or onError was invoked for
\* its call.
C16_PromiseSettles ==
  /\ [](\A p \in Calls : sess[p].promise # "pending" => Terminals(p) >= 1)
  /\ \A p \in 1..MaxFairCalls :
       (p \in Calls) ~> (p \in Calls /\ sess[p].promise # "pending")

\* a call superseded by a later sendMessage, signalled, closed and settled
C16_Witness ==
  \E p \in Calls :
    /\ p < Len(proc)
    /\ proc[p].status = "closed"
    /\ proc[p].signals > 0
    /\ sess[p].promise = "fulfilled"
    /\ Terminals(p) >= 1

\* the usage of the last turn.completed record that carries one, if any
RECURSIVE LastUsageOf(_)
LastUsageOf(events) ==
  IF events = << >> THEN None
  ELSE LET last == events[Len(events)] IN
       IF last.type = "turn.completed" /\ last.usage # None THEN last.usage
       ELSE LastUsageOf(SubSeq(events, 1, Len(events) - 1))

\* C17: the usage given to onComplete is the usage of the last decoded
\* turn.completed record that carried usage, and is undefined when no such
\* record was decoded; records of other types do not change it.
C17_UsageOfLastTurn ==
  \A p \in Calls :
    \A i \in 1..Len(sess[p].log) :
      sess[p].log[i].cb = "onComplete" =>
        sess[p].log[i].usage = LastUsageOf(EventsOf(SubSeq(sess[p].log, 1, i - 1)))

\* C18: the argument vector is "exec", "--json", then the sandbox flag
\* ("--sandbox" "danger-full-access" for full access, "--full-auto" for
\* workspace-write, nothing for read-only), then "--model" and the name only
\* when a model override is configured, then "--reasoning-effort" and the
\* effort only when it is not medium, then "--skip-git-repo-check", then the
\* prompt; "hello" with read-only, no model and medium effort gives
\* exec --json --skip-git-repo-check hello.
C18_ArgumentVector ==
  args # None =>
    /\ args[1].argv
         = <<"exec", "--json">>
           \o (CASE settings.sandboxMode = "danger-full-access"
                      -> <<"--sandbox", "danger-full-access">>
                 [] settings.sandboxMode = "workspace-write" -> <<"--full-auto">>
                 [] settings.sandboxMode = "read-only" -> << >>)
           \o (IF settings.modelOverride = "" THEN << >>
               ELSE <<"--model", settings.modelOverride>>)
           \o (IF settings.reasoningEffort = "medium" THEN << >>
               ELSE <<"--reasoning-effort", settings.reasoningEffort>>)
           \o <<"--skip-git-repo-check", args[1].prompt>>
    /\ (/\ args[1].prompt = "hello"
        /\ settings.sandboxMode = "read-only"
        /\ settings.modelOverride = ""
        /\ settings.reasoningEffort = "medium")
       => args[1].argv = <<"exec", "--json", "--skip-git-repo-check", "hello">>

\* the vector built for "hello" under the default settings
C18_Witness ==
  /\ settings = DEFAULT_SETTINGS
  /\ args = Some([prompt |-> "hello",
                  argv |-> <<"exec", "--json", "--skip-git-repo-check", "hello">>])

\* C19: for every total budget and every ratio r strictly between 0 and 1,
\* contextBudget = floor(total * r) and memoryBudget = total - contextBudget,
\* so the two add up to total and neither is negative; ratio 0.6 and total
\* 10000 give 6000 and 4000.
C19_BudgetSplit ==
  budget # None =>
    LET total == settings.maxContextLength
        contextBudget == budget[1].vaultBudget
        memoryBudget == budget[1].memoryBudget
    IN /\ contextBudget = (total * settings.contextBudgetRatio) \div 10
       /\ memoryBudget = total - contextBudget
       /\ contextBudget + memoryBudget = total
       /\ contextBudget >= 0 /\ memoryBudget >= 0
       /\ (settings.contextBudgetRatio = 6 /\ total = 10000)
            => (contextBudget = 6000 /\ memoryBudget = 4000)

\* the length of the header and of the first n lines of a memory
RECURSIVE LengthUpTo(_, _)
LengthUpTo(lines, n) ==
  IF n = 0 THEN HeaderLength
  ELSE LengthUpTo(lines, n - 1)
       + (IF lines[n].role = "user" THEN UserLength ELSE AssistantLength)
       + SeparatorsLength + lines[n].kept
       + (IF lines[n].truncated THEN MarkerLength ELSE 0)

\* C20: the memory builder includes no message line that takes the length
\* built so far past the memory budget; with a budget of 4000 characters and
\* two turns of 3000 characters, only the first turn is included.
C20_MemoryWithinBudget ==
  memory # None =>
    /\ \A n \in 1..Len(memory[1].lines) :
         LengthUpTo(memory[1].lines, n) <= budget[1].memoryBudget
    /\ (/\ budget[1].memoryBudget = 4000
        /\ Len(messages) = 2
        /\ \A i \in 1..2 : messages[i].content = 3000)
       => Len(memory[1].lines) = 1

\* C21: the memory builder never truncates a message: every message in the
\* memory block is there with its complete content, and a message whose
\* line would exceed the remaining budget is left out, not cut.
C21_MemoryNeverTruncates ==
  memory # None =>
    \A n \in 1..Len(memory[1].lines) :
      /\ ~memory[1].lines[n].truncated
      /\ memory[1].lines[n].kept
           = SliceLast(messages, settings.memoryTurns * 2)[n].content

\* every call of formatNoteContext made for the context
NoteCalls == IF context = None THEN << >>
             ELSE context[1].referenced.calls \o context[1].ambient.calls

\* C22: note-context formatting never takes a negative-length slice:
\* whenever maxLength minus the header length minus the fixed margin is zero
\* or negative, in particular when maxLength is smaller than the header, the
\* unit is the empty string.
C22_NoNegativeSlice ==
  \A i \in 1..Len(NoteCalls) :
    LET call == NoteCalls[i]
        header == NoteHeaderLength + call.note.titlePath
    IN /\ call.unit.kept >= 0
       /\ call.unit.kept <= call.note.content
       /\ call.maxLength - header - Margin <= 0 => call.unit.length = 0
       /\ call.maxLength < header => call.unit = EmptyUnit

\* a note formatted under a length smaller than its header: the empty unit
C22_Witness ==
  \E i \in 1..Len(NoteCalls) :
    /\ NoteCalls[i].maxLength < NoteHeaderLength + NoteCalls[i].note.titlePath
    /\ NoteCalls[i].note.content > 0
    /\ NoteCalls[i].unit = EmptyUnit

\* C23: the unit returned by note-context formatting (header, content,
\* truncation marker and trailing newline together) is never longer than
\* the maxLength it was given.
C23_UnitFitsLength ==
  \A i \in 1..Len(NoteCalls) :
    NoteCalls[i].unit.length <= NoteCalls[i].maxLength


\* C24: the vault content included in a prompt (referenced-file context plus
\* ambient note context, headers and separators included) never exceeds the
\* context share of the maximum context length, hence never the maximum
\* context length.
C24_VaultWithinShare ==
  context # None /\ budget # None =>
    /\ context[1].referenced.length + context[1].ambient.length
         <= budget[1].vaultBudget
    /\ context[1].referenced.length + context[1].ambient.length
         <= settings.maxContextLength

\* the length of the units of the calls before the i-th one of a source
ConsumedBefore(calls, i) == UnitsLength(SubSeq(calls, 1, i - 1))

\* the source gives each note what its units have not consumed, which is
\* more than nothing, and stops asking once nothing is left
SourceWithinBudget(source, notes) ==
  /\ \A i \in 1..Len(source.calls) :
       /\ source.calls[i].maxLength
            = source.maxLength - ConsumedBefore(source.calls, i)
       /\ source.calls[i].maxLength > 0
  /\ Len(source.calls) <= Len(notes)
  /\ Len(source.calls) < Len(notes) =>
       UnitsLength(source.calls) >= source.maxLength

\* C25: no context source is built with a negative remaining budget:
\* referenced files get at most half of the context share, the ambient
\* context gets the share minus what the referenced files consumed, each
\* note of a source gets what is still unconsumed, and a source or a note
\* with nothing left is skipped.
C25_NoNegativeBudget ==
  context # None /\ budget # None =>
    LET referenced == context[1].referenced
        ambient == context[1].ambient
        share == budget[1].vaultBudget
        linked == IF settings.contextMode = "current-and-linked"
                  THEN vault.linked ELSE << >>
    IN /\ referenced.built /\ referenced.maxLength = share \div 2
       /\ referenced.maxLength >= 0
       /\ SourceWithinBudget(referenced, vault.mentioned)
       /\ ambient.built =>
            /\ ambient.maxLength = share - referenced.length
            /\ ambient.maxLength > 0
            /\ vault.active # None /\ settings.contextMode # "none" =>
                 SourceWithinBudget(ambient, <<vault.active[1]>> \o linked)
       /\ ~ambient.built =>
            /\ share - referenced.length <= AmbientThreshold
            /\ ambient.calls = << >> /\ ambient.length = 0
       /\ referenced.length = 0 /\ ambient.built => ambient.maxLength = share

\* a referenced file used up its source's budget and the next one was
\* skipped, and the ambient context was built from what was left
C25_Witness ==
  /\ context # None
  /\ Len(context[1].referenced.calls) < Len(vault.mentioned)
  /\ context[1].referenced.calls # << >>
  /\ context[1].ambient.built
  /\ context[1].ambient.calls # << >>
  /\ context[1].ambient.maxLength < budget[1].vaultBudget


\* C26: the resolved environment is computed at most once between
\* invalidations: a getShellEnv call that finds the cache returns it without
\* querying the shell, the first call after clearShellEnvCache queries the
\* shell and caches what it returns, nothing else queries the shell for the
\* environment, and every saveSettings that returns leaves the cache
\* cleared, so that the next spawn recomputes it.
C26_EnvComputedOnce ==
  [][/\ env'.calls = env.calls + 1 /\ env.cachedEnv # None =>
          /\ env'.queries = env.queries
          /\ env'.returned = env.cachedEnv
          /\ env'.cachedEnv = env.cachedEnv
     /\ env'.calls = env.calls + 1 /\ env.cachedEnv = None =>
          /\ env'.queries = env.queries + 1
          /\ env'.cachedEnv # None
          /\ env'.returned = env'.cachedEnv
     /\ env'.calls = env.calls =>
          /\ env'.queries = env.queries
          /\ env'.cachedEnv \in {env.cachedEnv, None}
     /\ env'.saving < env.saving => env'.cachedEnv = None]_vars

\* three spawns and one saveSettings: the environment was computed, found
\* in the cache, invalidated and computed again
C26_Witness ==
  /\ env.calls = 3
  /\ env.queries = 2
  /\ env.cachedEnv # None
  /\ env.resolved # None
  /\ env.saving = 0

\* the candidates of a bare "codex", in the order of the strategies
Candidates(m) ==
  (IF m.which # None /\ m.which[1] # << >> THEN <<m.which[1]>> ELSE << >>)
  \o COMMON_CODEX_PATHS \o ScanCandidates(m)

\* the indexes of the candidates that exist
Hits(m) == {i \in 1..Len(Candidates(m)) : Candidates(m)[i] \in m.exists}

C28_TestConnectionResolves ==
  conn # None =>
    /\ conn[1].promise \in {"pending", "resolved"}
    /\ conn[1].status \in {"closed", "errored", "nospawn"} =>
         conn[1].promise = "resolved"
    /\ conn[1].promise = "resolved" =>
         (conn[1].value <=> conn[1].status = "closed" /\ conn[1].code = "0")
    /\ conn[1].promise = "pending" =>
         conn[1].status \in {"running", "killed", "failing"}

\* the timeout killed the subprocess and the test resolved false
C28_Witness ==
  /\ conn # None
  /\ conn[1].status = "closed"
  /\ conn[1].code = "null"
  /\ conn[1].promise = "resolved"
  /\ ~conn[1].value


\* C29: the conversation memory prepended to a prompt consists of prior
\* messages only: the memory lines are the first of the recent messages,
\* the message being sent is the last of them, and so there are fewer lines
\* than recent messages.
C29_MemoryOfPriorMessages ==
  memory # None /\ args # None =>
    Len(memory[1].lines) < Len(SliceLast(messages, settings.memoryTurns * 2))

\* C30: at most one debounced render is pending at any time, none is pending
\* after a cancellation, and when a stream that has a bubble and a text ends,
\* by completion or by an error, the text is rendered in full and no
\* debounced render is left pending.
C30_DebouncedRender ==
  /\ view.timeouts <= 1
  /\ view.last = "handleCancel" => view.timeouts = 0
  /\ view.last \in {"finalizeResponse", "handleStreamError"} =>
       /\ view.timeouts = 0
       /\ view.ended[1].el /\ view.ended[1].text # 0 =>
            /\ view.ended[1].rendered
            /\ view.renders # << >>
            /\ view.renders[Len(view.renders)]
                 = [by |-> "final", text |-> view.ended[1].text]


\* the log ends with the text chunk of an assistant-message completion
EndsWithCompletionChunk(log) ==
  /\ Len(log) >= 2
  /\ log[Len(log)].cb = "onTextChunk"
  /\ log[Len(log) - 1].cb = "onEvent"
  /\ IsAgentMessage(log[Len(log) - 1].ev)
  /\ log[Len(log) - 1].ev.type = "item.completed"

\* C31: after the chunk of an assistant-message completion record is
\* delivered, the view's streamed text is the text the service has
\* accumulated (they have the same length), whatever records and raw-text
\* lines came before.
C31_CompletionReplaces ==
  \A p \in DOMAIN sess :
    EndsWithCompletionChunk(sess[p].log) =>
      Callbacks(StreamingView, sess[p].log).currentStreamText
        = Len(sess[p].fullText)


\* the positions of the log where onError reports a failure record
FailureReports(log) ==
  {i \in 1..Len(log) :
     /\ log[i].cb = "onError"
     /\ i > 1 /\ log[i - 1].cb \in {"onEvent", "onTextChunk"}
     /\ log[i].text[1] \notin {"Codex exited with code ", "Failed to run Codex: ",
                               "Failed to start Codex CLI. Is it installed?"}}

ListenerOf(p) ==
  \/ Closes(p)
  \/ proc[p].status = "failing" /\ proc'[p].status = "errored"

\* C33: the close or error event of a session that a newer sendMessage has
\* superseded leaves the service's process handle and abort indicator, which
\* belong to the newer session, unchanged: isRunning() stays true and the
\* handle keeps pointing at the newer subprocess.
C33_LateEventKeepsHandle ==
  [][\A p \in Calls :
       ListenerOf(p) /\ p < Len(proc) =>
         /\ currentProcess' = currentProcess
         /\ abortController' = abortController]_vars


\* the step runs a listener of call p: stdout data, close or error
EventOf(p) == DataStep(p) \/ ListenerOf(p)

\* C34: the late callback of a cancelled or superseded send never changes
\* the state of a send started after it: while the newer response is being
\* generated, an event of an older call leaves the newer bubble, its
\* streamed text, the generating flag and the messages unchanged.
C34_LateCallbackKeepsView ==
  [][\A p \in Calls :
       EventOf(p) /\ p < Len(proc) /\ view.isGenerating =>
         /\ view'.isGenerating
         /\ view'.currentStreamEl = view.currentStreamEl
         /\ view'.currentStreamText = view.currentStreamText
         /\ messages' = messages]_vars


\* C35: the chat view never submits two messages concurrently: handleSend
\* invoked while an earlier handleSend has not finished, be it still
\* awaiting the authentication check, submits nothing.  Every submission
\* goes through sendMessage, which spawns; so a step that submits while
\* another invocation is suspended or generating is a second submission.
C35_OneSubmissionAtATime ==
  [][Len(proc') > Len(proc) =>
       /\ ~view.isGenerating
       /\ view.awaiting <= 1]_vars


\* C36: for one sendMessage call the terminal callback is the last one:
\* after onComplete no onEvent, onTextChunk, onError or second onComplete is
\* invoked for that call.
C36_CompleteIsLast ==
  \A p \in Calls :
    \A i \in 1..Len(sess[p].log) :
      sess[p].log[i].cb = "onComplete" => i = Len(sess[p].log)


\* a call is over whose completion callback came after stream callbacks,
\* the last of them that of the leftover line parsed by the close listener
C36_Witness ==
  \E p \in Calls :
    LET log == sess[p].log IN
    /\ Over(p)
    /\ Len(log) >= 3
    /\ log[Len(log)].cb = "onComplete"
    /\ log[Len(log) - 1].cb = "onTextChunk"
    /\ proc[p].delivered # << >>
    /\ proc[p].delivered[Len(proc[p].delivered)] # NL


\* C37: whenever resolveCodexBinary returns a value different from the
\* configured one, the value is the path of the command file itself: an
\* existing path whose last component is the command name, never a
\* directory or marker of the well-known locations.
C37_ReturnsCommandFile ==
  env.resolved # None =>
    LET call == env.resolved[1]
        value == call.result.value
    IN value # call.configured =>
         /\ value \in call.machine.exists
         /\ value[Len(value)] = "codex"


\* C38: after load, for any persisted data, and after any sequence of
\* createSession, switchTo, rename, deleteSession and updateMessages, the
\* conversation list is non-empty and the active session id is the id of a
\* session in the list.
C38_ActiveSessionListed ==
  manager.last.op # "constructor" =>
    /\ manager.sessions # << >>
    /\ manager.activeSessionId # None
    /\ Find(manager.sessions, manager.activeSessionId[1]) # 0


\* task i writes its data in this step
Writes(i) ==
  /\ i \in DOMAIN disk.tasks
  /\ disk.tasks[i].phase = "storing"
  /\ disk'.data = disk.tasks[i].held
  /\ disk'.tasks = Remove(disk.tasks, i)

\* C39: saving settings preserves the persisted chat history, in every
\* interleaving of saveSettings with a save of the chat history: the write
\* of saveSettings leaves the stored history as it finds it, never putting
\* an older copy in its place, and the write of a history save leaves the
\* stored settings as it finds them.
C39_SavesKeepHistory ==
  [][\A i \in DOMAIN disk.tasks :
       Writes(i) =>
         IF disk.tasks[i].kind = "saveSettings"
         THEN /\ disk'.data.chatSessions = disk.data.chatSessions
              /\ disk'.data.activeSessionId = disk.data.activeSessionId
              /\ disk'.data.chatMessages = disk.data.chatMessages
         ELSE disk'.data.settings = disk.data.settings]_vars


\* the user turns of a conversation
UserTurns(msgs) == Cardinality({i \in 1..Len(msgs) : msgs[i].role = "user"})

\* C40: the retry action resubmits the last user turn unchanged and does
\* not duplicate it: a retry leaves the number of user turns in the
\* conversation history as it was, and the text it sends is that of the
\* turn that failed.
C40_RetryKeepsOneTurn ==
  [][view'.retries > view.retries =>
       /\ UserTurns(messages') = UserTurns(messages)
       /\ args'[1].prompt.request = findLastUserMessage(messages)]_vars

====
